---- MODULE Spec2Model ----
(***************************************************************************)
(* Conway's Game of Life (game-of-life-rs): the cellular automaton state  *)
(* engine of src/src/game.rs.  A Grid is a record [width, height, cells]; *)
(* cells is the flat vector of the source, cells[y * width + x] being the *)
(* cell (x, y).  TLA+ sequences start at 1, so the vector index i of the  *)
(* source is position i + 1 of the sequence.                              *)
(***************************************************************************)
EXTENDS Integers, Sequences, FiniteSets

VARIABLES
    grid,       \* the Grid under test: [width, height, cells]
    built,      \* the grid as the caller built it, before the calls
    call,       \* the last call made on the grid, its arguments and its outcome
    new_cells,  \* next_generation: the vector of the new generation being filled
    pending,    \* next_generation: the vector indices not evaluated yet
    generation, \* the number of generations computed since the grid was set up
    game_state, \* save_load: the GameState at hand, << >> when there is none
    rle_pattern,\* save_load: the RlePattern at hand, << >> when there is none
    rle_data,   \* save_load: the text of an RLE file, a sequence of characters
    imported,   \* save_load: the Result of the last import, << >> before it
    rle_file,   \* the parts of the RLE file on disk, << >> when none is read
    app,        \* GameOfLifeApp: the fields beside grid and generation
    statistics, \* the PopulationStatistics
    theme_manager, \* the ThemeManager
    ui_state,   \* the UiStateManager
    now,        \* the clock: the ticks gone by since the program started
    frame,      \* the last call of update() or of a manager, and what it did
    trail       \* what the callers did so far, for the properties to refer to

vars == <<grid, built, call, new_cells, pending,
          generation, game_state, rle_pattern, rle_data, imported,
          rle_file, app, statistics, theme_manager, ui_state, now, frame, trail>>
\* the locals of a next_generation call in progress
locals == <<new_cells, pending>>
\* the state of the layers above the grid, which no Grid method touches
application == <<rle_file, app, statistics, theme_manager, ui_state, now, frame, trail>>
outside == <<generation, game_state, rle_pattern, rle_data, imported, application>>

----------------------------------------------------------------------------
(* Bounds of the model *)

\* largest width or height of a grid
MaxDim == 3
\* largest number of cells of a grid that takes one call
MaxCells == 9
\* largest number of cells of a grid that takes a sequence of calls
MaxSeqCells == 4
\* largest number of cells of a grid whose cells are evaluated in every order
MaxOrderCells == 6
\* largest x_offset / y_offset handed to load_pattern
MaxOffset == 2
\* largest width or height of a grid a pattern is placed on and run
MaxPatternDim == 5
\* largest number of generations a placed pattern is run for
MaxGenerations == 4
\* largest width, height or coordinate of a GameState read from a file
MaxStateDim == 2
\* largest number of alive_cells of a GameState read from a file
MaxAliveCells == 2
\* largest width of a one-row RlePattern, for runs of ten cells and more
MaxRowWidth == 10

Dims == {d \in (0..MaxDim) \X (0..MaxDim) : d[1] * d[2] <= MaxCells}
OrderDims == {d \in Dims : d[1] * d[2] <= MaxOrderCells}
SeqDims == {d \in Dims : d[1] * d[2] <= MaxSeqCells}
\* coordinates handed to get_cell, set_cell and toggle_cell: in and out of range
XArgs == 0..MaxDim
YArgs == 0..MaxDim
Offsets == 0..MaxOffset

----------------------------------------------------------------------------
(* CellState and Grid *)

CellState == {"Alive", "Dead"}

\* Grid::new that stores at least one cell
Grid_new_nonempty(width, height) ==
    [width |-> width, height |-> height,
     cells |-> [i \in 1..(IF width * height = 0 THEN 1 ELSE width * height) |-> "Dead"]]

Grid_new(width, height) ==
    [width |-> width, height |-> height,
     cells |-> [i \in 1..(width * height) |-> "Dead"]]

\* the checked vector index of Rust: cells[index] fails when index >= cells.len()
InRange(g, index) == index >= 0 /\ index < Len(g.cells)

\* get_cell indexes the vector without a check of x against width
get_cell(g, x, y) ==
    LET index == y * g.width + x
    IN  IF InRange(g, index) THEN g.cells[index + 1] ELSE "panic"

\* set_cell guarded by the vector length only, not by x < width
set_cell_flat(g, x, y, state) ==
    IF y * g.width + x < Len(g.cells)
    THEN [g EXCEPT !.cells[y * g.width + x + 1] = state]
    ELSE g

\* set_cell with the rows of the vector taken to be `height` cells long
set_cell_height_stride(g, x, y, state) ==
    IF x < g.width /\ y < g.height
    THEN [g EXCEPT !.cells[y * g.height + x + 1] = state]
    ELSE g

set_cell(g, x, y, state) ==
    IF x < g.width /\ y < g.height
    THEN [g EXCEPT !.cells[y * g.width + x + 1] = state]
    ELSE g

\* toggle_cell that only ever brings a cell to life
toggle_cell_alive(g, x, y) ==
    IF x < g.width /\ y < g.height
    THEN [g EXCEPT !.cells[y * g.width + x + 1] = "Alive"]
    ELSE g

toggle_cell(g, x, y) ==
    IF x < g.width /\ y < g.height
    THEN LET index == y * g.width + x
         IN  [g EXCEPT !.cells[index + 1] =
                  IF g.cells[index + 1] = "Alive" THEN "Dead" ELSE "Alive"]
    ELSE g

NEIGHBOR_OFFSETS ==
    << <<-1, -1>>, <<-1, 0>>, <<-1, 1>>,
       << 0, -1>>,            << 0, 1>>,
       << 1, -1>>, << 1, 0>>, << 1, 1>> >>

\* count_neighbors on a torus: a position off one edge is read at the other
RECURSIVE count_neighbors_wrap(_, _, _, _, _)
count_neighbors_wrap(g, x, y, k, count) ==
    IF k > Len(NEIGHBOR_OFFSETS) THEN count
    ELSE LET nx == (x + NEIGHBOR_OFFSETS[k][1] + g.width) % g.width
             ny == (y + NEIGHBOR_OFFSETS[k][2] + g.height) % g.height
             hit == g.cells[ny * g.width + nx + 1] = "Alive"
         IN  count_neighbors_wrap(g, x, y, k + 1, IF hit THEN count + 1 ELSE count)

\* the loop of count_neighbors over NEIGHBOR_OFFSETS[k..8], count so far given
RECURSIVE count_neighbors_from(_, _, _, _, _)
count_neighbors_from(g, x, y, k, count) ==
    IF k > Len(NEIGHBOR_OFFSETS) THEN count
    ELSE LET nx == x + NEIGHBOR_OFFSETS[k][1]
             ny == y + NEIGHBOR_OFFSETS[k][2]
             hit == /\ nx >= 0 /\ ny >= 0 /\ nx < g.width /\ ny < g.height
                    /\ g.cells[ny * g.width + nx + 1] = "Alive"
         IN  count_neighbors_from(g, x, y, k + 1, IF hit THEN count + 1 ELSE count)

count_neighbors(g, x, y) == count_neighbors_from(g, x, y, 1, 0)

\* the match with survival on 3 live neighbours only
rule_s3(state, neighbors) ==
    IF state = "Alive" /\ neighbors = 3 THEN "Alive"
    ELSE IF state = "Dead" /\ neighbors = 3 THEN "Alive"
    ELSE "Dead"

\* the rule with survival on two neighbours only
rule_s2(state, neighbors) ==
    IF state = "Alive" /\ neighbors = 2 THEN "Alive"
    ELSE IF state = "Dead" /\ neighbors = 3 THEN "Alive"
    ELSE "Dead"

\* the match of next_generation on (current state, live neighbours)
rule(state, neighbors) ==
    IF state = "Alive" /\ (neighbors = 2 \/ neighbors = 3) THEN "Alive"
    ELSE IF state = "Dead" /\ neighbors = 3 THEN "Alive"
    ELSE "Dead"

\* the loop body updating in place: neighbours are counted in the new vector
eval_cell_in_place(g, out, index) ==
    LET x == index % g.width
        y == index \div g.width
    IN  [out EXCEPT ![index + 1] =
            rule(out[index + 1], count_neighbors([g EXCEPT !.cells = out], x, y))]

\* one iteration of the loop body of next_generation: cell `index` of
\* the new vector `out` is written from the grid g, which the loop never writes
eval_cell(g, out, index) ==
    LET x == index % g.width
        y == index \div g.width
    IN  [out EXCEPT ![index + 1] =
            rule(g.cells[index + 1], count_neighbors(g, x, y))]

\* for y in 0..height { for x in 0..width { ... } }, from (x, y) on
RECURSIVE next_generation_loop(_, _, _, _)
next_generation_loop(g, out, x, y) ==
    IF y >= g.height THEN out
    ELSE IF x >= g.width THEN next_generation_loop(g, out, 0, y + 1)
    ELSE next_generation_loop(g, eval_cell(g, out, y * g.width + x), x + 1, y)

next_generation(g) ==
    [g EXCEPT !.cells = next_generation_loop(g, g.cells, 0, 0)]

\* clear as Vec::clear: the vector is emptied
clear_vec(g) == [g EXCEPT !.cells = << >>]

\* clear that skips the first cell
clear_skip_first(g) ==
    [g EXCEPT !.cells = [i \in 1..Len(g.cells) |-> IF i = 1 THEN g.cells[i] ELSE "Dead"]]

clear(g) == [g EXCEPT !.cells = [i \in 1..Len(g.cells) |-> "Dead"]]

----------------------------------------------------------------------------
(* randomize: 64-bit and f32 arithmetic                                    *)
(* A u64 is four 16-bit limbs <<l0, l1, l2, l3>>, least significant first, *)
(* so that every intermediate product stays below 2^31.  An f32 in [0, 1]  *)
(* that is a multiple of 2^-32 is the pair <<h, l>> standing for           *)
(* (h * 2^16 + l) / 2^32; every value randomize compares is such a value.  *)

Limb == 256 * 256

\* rng_state.wrapping_mul(1664525).wrapping_add(1013904223):
\* 1664525 = 25 * 2^16 + 26125 and 1013904223 = 15470 * 2^16 + 62303
lcg_next(s) ==
    LET t0 == s[1] * 26125 + 62303
        t1 == s[2] * 26125 + s[1] * 25 + 15470 + (t0 \div Limb)
        t2 == s[3] * 26125 + s[2] * 25 + (t1 \div Limb)
        t3 == s[4] * 26125 + s[3] * 25 + (t2 \div Limb)
    IN  <<t0 % Limb, t1 % Limb, t2 % Limb, t3 % Limb>>

RECURSIVE floor_log2(_)
floor_log2(n) == IF n <= 1 THEN 0 ELSE 1 + floor_log2(n \div 2)

RECURSIVE pow2(_)
pow2(n) == IF n = 0 THEN 1 ELSE 2 * pow2(n - 1)

\* (hi as f32) for the u32 hi = h * 2^16 + l: the nearest value with a 24-bit
\* significand, ties to the even significand; the result as <<h', l'>>, which
\* is <<65536, 0>> when hi rounds up to 2^32
u32_as_f32(h, l) ==
    IF h < 256 THEN <<h, l>>
    ELSE LET sp == pow2(floor_log2(h) - 7)
             r  == l % sp
             q_odd == ((l \div sp) % 2) = 1
             up == (2 * r > sp) \/ (2 * r = sp /\ q_odd)
             low == l - r + (IF up THEN sp ELSE 0)
         IN  IF low = Limb THEN <<h + 1, 0>> ELSE <<h, low>>

\* (rng_state >> 32) as f32 / u32::MAX as f32, u32::MAX as f32 being 2^32:
\* the quotient of an f32 by a power of two is exact
rand_val(s) == u32_as_f32(s[4], s[3])

f32_lt(a, b) == a[1] < b[1] \/ (a[1] = b[1] /\ a[2] < b[2])

\* the loop of randomize from vector index `index` on
RECURSIVE randomize_loop(_, _, _, _)
randomize_loop(cells, density, rng_state, index) ==
    IF index >= Len(cells) THEN cells
    ELSE LET next_state == lcg_next(rng_state)
         IN  randomize_loop(
                 [cells EXCEPT ![index + 1] =
                     IF f32_lt(rand_val(next_state), density) THEN "Alive" ELSE "Dead"],
                 density, next_state, index + 1)

\* randomize that leaves the first cell as it was
randomize_skip_first(g, density, rng_state) ==
    [g EXCEPT !.cells = randomize_loop(g.cells, density, lcg_next(rng_state), 1)]

\* rng_state is the value of hasher.finish() for the time seed (the system
\* clock is taken to be at or after the Unix epoch, so that unwrap() succeeds)
randomize(g, density, rng_state) ==
    [g EXCEPT !.cells = randomize_loop(g.cells, density, rng_state, 0)]

\* values of hasher.finish(): the time seed is not known to the model
HashValues ==
    { <<0, 0, 0, 0>>,                    \* first draws 0x0, 0x5feed, 0x490c734a
      <<57072, 39612, 22136, 4660>>,     \* 0x123456789abcdef0
      <<4069, 9686, 34127, 20325>>,      \* first draw 0x80000000
      <<4069, 9686, 51722, 24664>>,      \* first draw 0xffffff7f
      <<4069, 9686, 11402, 53381>> }     \* first draw 0xffffffff

\* densities 0.0, 0.3f32, 0.5 and 1.0 of the slider range 0.0..=1.0
Densities == { <<0, 0>>, <<19660, 52480>>, <<32768, 0>>, <<65536, 0>> }

----------------------------------------------------------------------------
(* load_pattern *)

\* for (dx, ch) in line.chars().enumerate(), from character dx on
RECURSIVE load_line(_, _, _, _, _)
load_line(g, line, x_offset, y, dx) ==
    IF dx >= Len(line) THEN g
    ELSE LET x == x_offset + dx
             ch == line[dx + 1]
             g2 == IF x < g.width /\ y < g.height
                   THEN IF ch \in {"*", "#", "O"}
                        THEN set_cell(g, x, y, "Alive")
                        ELSE set_cell(g, x, y, "Dead")
                   ELSE g
         IN  load_line(g2, line, x_offset, y, dx + 1)

\* for (dy, line) in pattern.iter().enumerate(), from row dy on
RECURSIVE load_rows(_, _, _, _, _)
load_rows(g, pattern, x_offset, y_offset, dy) ==
    IF dy >= Len(pattern) THEN g
    ELSE load_rows(load_line(g, pattern[dy + 1], x_offset, y_offset + dy, 0),
                   pattern, x_offset, y_offset, dy + 1)

\* load_pattern as an overlay: the grid is not cleared first
load_pattern_overlay(g, pattern, x_offset, y_offset) ==
    load_rows(g, pattern, x_offset, y_offset, 0)

load_pattern(g, pattern, x_offset, y_offset) ==
    load_rows(clear(g), pattern, x_offset, y_offset, 0)

\* stencils handed to load_pattern; a row is the sequence of its characters
Patterns ==
    { << >>,                                              \* no rows
      << <<"O", "O", "O">> >>,                            \* oscillators::BLINKER
      << <<"O", "O">>, <<"O", "O">> >>,                   \* miscellaneous::BLOCK
      << <<" ", "O", " ">>, <<" ", " ", "O">>, <<"O", "O", "O">> >>,  \* test_load_pattern
      << <<"*", "#">>, << >>, <<".", "O", "b">> >>,       \* ragged, all live characters
      << <<"o", "#", " ", "*", "O">>, <<"*">> >> }        \* wider than the grid

----------------------------------------------------------------------------
(* save_load: GameState.  An f32 setting is the pair of f32_lt, <<h, l>>   *)
(* standing for (h * 2^16 + l) / 2^32; the settings of the model are not   *)
(* negative and not NaN.  version and created_at, which no function of the *)
(* module reads, are left out of the record.                               *)

\* the f32 of a whole number
F32(n) == <<n * Limb, 0>>

GameSettings(update_speed, cell_size, density) ==
    [update_speed |-> update_speed, cell_size |-> cell_size, density |-> density]

Ok(value) == [ok |-> TRUE, value |-> value]
Err(error) == [ok |-> FALSE, error |-> error]

\* from_grid that pushes (y, x)
RECURSIVE from_grid_loop_yx(_, _, _)
from_grid_loop_yx(g, index, alive_cells) ==
    IF index >= g.width * g.height THEN alive_cells
    ELSE LET x == index % g.width
             y == index \div g.width
         IN  from_grid_loop_yx(g, index + 1,
                 IF get_cell(g, x, y) = "Alive"
                 THEN Append(alive_cells, <<y, x>>) ELSE alive_cells)

\* the loops of from_grid over y and x, from the cell of vector index `index` on
RECURSIVE from_grid_loop(_, _, _)
from_grid_loop(g, index, alive_cells) ==
    IF index >= g.width * g.height THEN alive_cells
    ELSE LET x == index % g.width
             y == index \div g.width
         IN  from_grid_loop(g, index + 1,
                 IF get_cell(g, x, y) = "Alive"
                 THEN Append(alive_cells, <<x, y>>) ELSE alive_cells)

from_grid(g, generation_, update_speed, cell_size, density) ==
    [width |-> g.width, height |-> g.height, generation |-> generation_,
     alive_cells |-> from_grid_loop(g, 0, << >>),
     settings |-> GameSettings(update_speed, cell_size, density)]

\* to_grid that skips an alive cell outside the grid, as set_cell would
RECURSIVE to_grid_loop_drop(_, _, _)
to_grid_loop_drop(state, g, k) ==
    IF k > Len(state.alive_cells) THEN Ok(g)
    ELSE to_grid_loop_drop(state,
             set_cell(g, state.alive_cells[k][1], state.alive_cells[k][2], "Alive"),
             k + 1)

\* the loop of to_grid over alive_cells[k..]
RECURSIVE to_grid_loop(_, _, _)
to_grid_loop(state, g, k) ==
    IF k > Len(state.alive_cells) THEN Ok(g)
    ELSE LET x == state.alive_cells[k][1]
             y == state.alive_cells[k][2]
         IN  IF x >= state.width \/ y >= state.height
             THEN Err("InvalidGameState")
             ELSE to_grid_loop(state, set_cell(g, x, y, "Alive"), k + 1)

to_grid(state) ==
    IF state.width = 0 \/ state.height = 0
    THEN Err("InvalidGameState")
    ELSE to_grid_loop(state, Grid_new(state.width, state.height), 1)

validate(state) ==
    IF state.width = 0 \/ state.height = 0
    THEN Err("InvalidGameState")
    ELSE IF \/ ~f32_lt(F32(0), state.settings.update_speed)
            \/ f32_lt(F32(100), state.settings.update_speed)
    THEN Err("InvalidGameState")
    ELSE IF \/ ~f32_lt(F32(0), state.settings.cell_size)
            \/ f32_lt(F32(100), state.settings.cell_size)
    THEN Err("InvalidGameState")
    ELSE IF \/ f32_lt(state.settings.density, F32(0))
            \/ f32_lt(F32(1), state.settings.density)
    THEN Err("InvalidGameState")
    ELSE IF \E k \in 1..Len(state.alive_cells) :
                \/ state.alive_cells[k][1] >= state.width
                \/ state.alive_cells[k][2] >= state.height
    THEN Err("InvalidGameState")
    ELSE Ok("unit")

----------------------------------------------------------------------------
(* save_load: text.  A String is the sequence of its characters, each a    *)
(* string of length one; the operators below are those of the Rust         *)
(* standard library that the RLE code calls.                               *)

Digits == <<"0", "1", "2", "3", "4", "5", "6", "7", "8", "9">>
is_ascii_digit(ch) == \E d \in 1..Len(Digits) : Digits[d] = ch
DigitValue(ch) == (CHOOSE d \in 1..Len(Digits) : Digits[d] = ch) - 1
Whitespace == {" ", "\t", "\n", "\r"}

\* format!("{}", n) of a usize
RECURSIVE to_string(_)
to_string(n) ==
    IF n < Len(Digits) THEN <<Digits[n + 1]>>
    ELSE to_string(n \div Len(Digits)) \o <<Digits[(n % Len(Digits)) + 1]>>

\* the digits s[i..] read onto the value acc; -1 when one is not a digit
RECURSIVE parse_digits(_, _, _)
parse_digits(s, i, acc) ==
    IF i > Len(s) THEN acc
    ELSE IF ~is_ascii_digit(s[i]) THEN -1
    ELSE parse_digits(s, i + 1, acc * Len(Digits) + DigitValue(s[i]))

\* str::parse::<usize>(): the value, or -1 for an Err; a '+' may lead the
\* digits (the numbers of the model stay far below usize::MAX)
parse(s) ==
    IF s = << >> THEN -1
    ELSE IF s[1] = "+" THEN (IF Len(s) = 1 THEN -1 ELSE parse_digits(s, 2, 0))
    ELSE parse_digits(s, 1, 0)

starts_with(s, prefix) ==
    Len(s) >= Len(prefix) /\ SubSeq(s, 1, Len(prefix)) = prefix

\* strip_prefix, where starts_with holds
after_prefix(s, prefix) == SubSeq(s, Len(prefix) + 1, Len(s))

RECURSIVE trim_start(_)
trim_start(s) ==
    IF s # << >> /\ s[1] \in Whitespace THEN trim_start(Tail(s)) ELSE s

RECURSIVE trim_end(_)
trim_end(s) ==
    IF s # << >> /\ s[Len(s)] \in Whitespace
    THEN trim_end(SubSeq(s, 1, Len(s) - 1)) ELSE s

trim(s) == trim_end(trim_start(s))

RECURSIVE trim_end_matches(_, _)
trim_end_matches(s, ch) ==
    IF s # << >> /\ s[Len(s)] = ch
    THEN trim_end_matches(SubSeq(s, 1, Len(s) - 1), ch) ELSE s

\* str::replace(ch, "")
remove_char(s, ch) == SelectSeq(s, LAMBDA c : c # ch)

\* str::split(ch) from character i on, `current` being the part under way
RECURSIVE split_from(_, _, _, _)
split_from(s, ch, i, current) ==
    IF i > Len(s) THEN <<current>>
    ELSE IF s[i] = ch THEN <<current>> \o split_from(s, ch, i + 1, << >>)
    ELSE split_from(s, ch, i + 1, Append(current, s[i]))

split(s, ch) == split_from(s, ch, 1, << >>)

\* str::lines(): the text split after each "\n", the "\n" and a "\r" before
\* it removed; what follows the last "\n" is a line unless it is empty
RECURSIVE lines_from(_, _, _)
lines_from(s, i, current) ==
    IF i > Len(s) THEN (IF current = << >> THEN << >> ELSE <<current>>)
    ELSE IF s[i] = "\n"
    THEN <<(IF current # << >> /\ current[Len(current)] = "\r"
            THEN SubSeq(current, 1, Len(current) - 1) ELSE current)>>
         \o lines_from(s, i + 1, << >>)
    ELSE lines_from(s, i + 1, Append(current, s[i]))

lines(s) == lines_from(s, 1, << >>)

\* [String]::join(sep)
RECURSIVE join(_, _)
join(parts, sep) ==
    IF parts = << >> THEN << >>
    ELSE IF Len(parts) = 1 THEN parts[1]
    ELSE parts[1] \o sep \o join(Tail(parts), sep)

----------------------------------------------------------------------------
(* save_load: RlePattern, export_to_rle_string and import_from_rle_string *)

B3S23 == <<"B", "3", "/", "S", "2", "3">>
ImportedPattern ==
    <<"I", "m", "p", "o", "r", "t", "e", "d", " ", "P", "a", "t", "t", "e", "r", "n">>

\* RlePattern::new
RlePattern_new(name, width, height) ==
    [name |-> name, comment |-> << >>, author |-> << >>,
     width |-> width, height |-> height, rule |-> B3S23,
     data |-> [y \in 1..height |-> [x \in 1..width |-> FALSE]]]

\* RlePattern::from_grid
RlePattern_from_grid(g, name) ==
    [name |-> name, comment |-> << >>, author |-> << >>,
     width |-> g.width, height |-> g.height, rule |-> B3S23,
     data |-> [y \in 1..g.height |->
                 [x \in 1..g.width |-> get_cell(g, x - 1, y - 1) = "Alive"]]]

\* RlePattern::to_grid, the loops over y and x from the cell number `index` on
RECURSIVE rle_to_grid_loop(_, _, _)
rle_to_grid_loop(p, g, index) ==
    IF index >= p.width * p.height THEN g
    ELSE LET x == index % p.width
             y == index \div p.width
         IN  rle_to_grid_loop(p, IF p.data[y + 1][x + 1]
                                 THEN set_cell(g, x, y, "Alive") ELSE g, index + 1)

RlePattern_to_grid(p) ==
    IF p.width = 0 \/ p.height = 0
    THEN Err("InvalidFormat")
    ELSE Ok(rle_to_grid_loop(p, Grid_new(p.width, p.height), 0))

append_run(line, count, is_alive) ==
    IF is_alive
    THEN (IF count = 1 THEN Append(line, "o") ELSE line \o to_string(count) \o <<"o">>)
    ELSE (IF count = 1 THEN Append(line, "b") ELSE line \o to_string(count) \o <<"b">>)

\* for &cell in row, from cell k on, with the locals line, count, last_cell
RECURSIVE encode_row(_, _, _, _, _)
encode_row(row, k, line, count, last_cell) ==
    IF k > Len(row)
    THEN (IF count > 0 THEN append_run(line, count, last_cell) ELSE line)
    ELSE IF row[k] = last_cell
    THEN encode_row(row, k + 1, line, count + 1, last_cell)
    ELSE encode_row(row, k + 1,
                    IF count > 0 THEN append_run(line, count, last_cell) ELSE line,
                    1, row[k])

\* while encoded_lines.last() is an empty line, pop it
RECURSIVE pop_empty_lines(_)
pop_empty_lines(encoded_lines) ==
    IF encoded_lines # << >> /\ encoded_lines[Len(encoded_lines)] = << >>
    THEN pop_empty_lines(SubSeq(encoded_lines, 1, Len(encoded_lines) - 1))
    ELSE encoded_lines

export_to_rle_string(p) ==
    LET comments ==
            (IF p.name # << >> THEN <<"#", "N", " ">> \o p.name \o <<"\n">> ELSE << >>)
            \o (IF p.comment # << >>
                THEN <<"#", "C", " ">> \o p.comment \o <<"\n">> ELSE << >>)
            \o (IF p.author # << >>
                THEN <<"#", "O", " ">> \o p.author \o <<"\n">> ELSE << >>)
        header ==
            <<"x", " ", "=", " ">> \o to_string(p.width)
            \o <<",", " ", "y", " ", "=", " ">> \o to_string(p.height)
            \o <<",", " ", "r", "u", "l", "e", " ", "=", " ">> \o p.rule \o <<"\n">>
        encoded_lines ==
            pop_empty_lines([r \in 1..Len(p.data) |->
                                encode_row(p.data[r], 1, << >>, 0, FALSE)])
        pattern_data == join(encoded_lines, <<"$">>)
    IN  comments \o header \o pattern_data
        \o (IF pattern_data # << >> THEN <<"!">> ELSE << >>) \o <<"\n">>

parse_comment_line(line, p) ==
    IF starts_with(line, <<"#", "N", " ">>)
    THEN [p EXCEPT !.name = after_prefix(line, <<"#", "N", " ">>)]
    ELSE IF starts_with(line, <<"#", "C", " ">>)
    THEN LET rest == after_prefix(line, <<"#", "C", " ">>)
         IN  IF p.comment = << >>
             THEN [p EXCEPT !.comment = rest]
             ELSE [p EXCEPT !.comment = p.comment \o <<"\n">> \o rest]
    ELSE IF starts_with(line, <<"#", "O", " ">>)
    THEN [p EXCEPT !.author = after_prefix(line, <<"#", "O", " ">>)]
    ELSE p

\* for part in parts, from part k on
RECURSIVE parse_header_parts(_, _, _)
parse_header_parts(parts, k, p) ==
    IF k > Len(parts) THEN Ok(p)
    ELSE LET part == parts[k]
         IN  IF starts_with(part, <<"x", "=">>)
             THEN LET value == parse(after_prefix(part, <<"x", "=">>))
                  IN  IF value < 0 THEN Err("ParseError")
                      ELSE parse_header_parts(parts, k + 1, [p EXCEPT !.width = value])
             ELSE IF starts_with(part, <<"y", "=">>)
             THEN LET value == parse(after_prefix(part, <<"y", "=">>))
                  IN  IF value < 0 THEN Err("ParseError")
                      ELSE parse_header_parts(parts, k + 1, [p EXCEPT !.height = value])
             ELSE IF starts_with(part, <<"r", "u", "l", "e", "=">>)
             THEN parse_header_parts(parts, k + 1,
                      [p EXCEPT !.rule = after_prefix(part, <<"r", "u", "l", "e", "=">>)])
             ELSE parse_header_parts(parts, k + 1, p)

\* parse_header_line that leaves the data of RlePattern::new, no rows
parse_header_line_no_data(line, p) ==
    LET parsed == parse_header_parts(split(remove_char(line, " "), ","), 1, p)
    IN  IF ~parsed.ok THEN parsed
        ELSE IF parsed.value.width = 0 \/ parsed.value.height = 0
        THEN Err("InvalidFormat")
        ELSE parsed

parse_header_line(line, p) ==
    LET parsed == parse_header_parts(split(remove_char(line, " "), ","), 1, p)
    IN  IF ~parsed.ok THEN parsed
        ELSE IF parsed.value.width = 0 \/ parsed.value.height = 0
        THEN Err("InvalidFormat")
        ELSE Ok([parsed.value EXCEPT
                    !.data = [y \in 1..parsed.value.height |->
                                 [x \in 1..parsed.value.width |-> FALSE]]])

\* for _ in 0..count: the cells x .. x + count - 1 of row y that lie inside
\* the declared width and height are set
set_run(p, x, y, count) ==
    [p EXCEPT !.data =
        [r \in 1..Len(p.data) |->
            [c \in 1..Len(p.data[r]) |->
                IF /\ r = y + 1 /\ y < p.height
                   /\ c - 1 >= x /\ c - 1 < x + count /\ c - 1 < p.width
                THEN TRUE ELSE p.data[r][c]]]]

\* the end of the run of digits that starts at character i
RECURSIVE digits_end(_, _)
digits_end(data, i) ==
    IF i + 1 <= Len(data) /\ is_ascii_digit(data[i + 1])
    THEN digits_end(data, i + 1) ELSE i

\* while let Some(ch) = chars.next(), from character i on, with the locals x, y
RECURSIVE parse_pattern_loop(_, _, _, _, _)
parse_pattern_loop(data, i, x, y, p) ==
    IF i > Len(data) THEN Ok(p)
    ELSE LET ch == data[i]
         IN  IF is_ascii_digit(ch)
             THEN LET last == digits_end(data, i)
                      count == parse(SubSeq(data, i, last))
                  IN  IF count < 0 \/ last + 1 > Len(data) THEN Err("ParseError")
                      ELSE LET next_ch == data[last + 1]
                           IN  IF next_ch = "b"
                               THEN parse_pattern_loop(data, last + 2, x + count, y, p)
                               ELSE IF next_ch = "o"
                               THEN parse_pattern_loop(data, last + 2, x + count, y,
                                                       set_run(p, x, y, count))
                               ELSE IF next_ch = "$"
                               THEN parse_pattern_loop(data, last + 2, 0, y + count, p)
                               ELSE Err("ParseError")
             ELSE IF ch = "b" THEN parse_pattern_loop(data, i + 1, x + 1, y, p)
             ELSE IF ch = "o"
             THEN parse_pattern_loop(data, i + 1, x + 1, y, set_run(p, x, y, 1))
             ELSE IF ch = "$" THEN parse_pattern_loop(data, i + 1, 0, y + 1, p)
             ELSE IF ch = "!" THEN Ok(p)
             ELSE IF ch \in Whitespace THEN parse_pattern_loop(data, i + 1, x, y, p)
             ELSE Err("ParseError")

parse_pattern_data(data, p) ==
    parse_pattern_loop(trim(trim_end_matches(data, "!")), 1, 0, 0, p)

\* for line in lines, from line k on, with the locals pattern, header_line
\* (<< >> for None) and pattern_lines
RECURSIVE import_lines(_, _, _, _, _)
import_lines(all_lines, k, p, header_line, pattern_lines) ==
    IF k > Len(all_lines)
    THEN [pattern |-> p, header_line |-> header_line, pattern_lines |-> pattern_lines]
    ELSE LET line == trim(all_lines[k])
         IN  IF line = << >>
             THEN import_lines(all_lines, k + 1, p, header_line, pattern_lines)
             ELSE IF starts_with(line, <<"#">>)
             THEN import_lines(all_lines, k + 1, parse_comment_line(line, p),
                               header_line, pattern_lines)
             ELSE IF \/ starts_with(line, <<"x", " ", "=">>)
                     \/ starts_with(line, <<"x", "=">>)
             THEN import_lines(all_lines, k + 1, p, <<line>>, pattern_lines)
             ELSE import_lines(all_lines, k + 1, p, header_line,
                               Append(pattern_lines, line))

import_from_rle_string(text) ==
    LET read == import_lines(lines(text), 1, RlePattern_new(ImportedPattern, 0, 0),
                             << >>, << >>)
    IN  IF read.header_line = << >> THEN Err("InvalidFormat")
        ELSE LET header == parse_header_line(read.header_line[1], read.pattern)
             IN  IF ~header.ok THEN header
                 ELSE parse_pattern_data(join(read.pattern_lines, << >>), header.value)

----------------------------------------------------------------------------
(* statistics: PopulationStatistics [history, max_history_length,          *)
(* show_statistics]                                                        *)

PopulationStatistics_new(max_history_length) ==
    [history |-> << >>, max_history_length |-> max_history_length,
     show_statistics |-> TRUE]

\* add_population that drops the value just pushed when the history is full
add_population_drop_newest(stats, population) ==
    LET pushed == Append(stats.history, population)
    IN  [stats EXCEPT !.history =
            IF Len(pushed) > stats.max_history_length
            THEN SubSeq(pushed, 1, Len(pushed) - 1) ELSE pushed]

\* history.push(population); if history.len() > max_history_length { history.remove(0) }
add_population(stats, population) ==
    LET pushed == Append(stats.history, population)
    IN  [stats EXCEPT !.history =
            IF Len(pushed) > stats.max_history_length THEN Tail(pushed) ELSE pushed]

clear_history(stats) == [stats EXCEPT !.history = << >>]

get_history(stats) == stats.history

get_history_length(stats) == Len(stats.history)

----------------------------------------------------------------------------
(* theme: ThemeManager [current_theme, transition_progress,                *)
(* transition_start, target_theme].  An Instant is a whole number of ticks *)
(* of the clock, one tick being 100 ms, and transition_start is << >> for  *)
(* None, <<t>> for Some(t).  A progress value p stands for the f32         *)
(* p / ProgressOne; every value the functions compute on whole ticks is    *)
(* such a fraction, so no rounding is involved.                            *)

ColorTheme == {"Light", "Dark"}

\* const TRANSITION_DURATION: f32 = 0.3, in ticks
TRANSITION_DURATION == 3

\* the progress value 1.0
ProgressOne == TRANSITION_DURATION * TRANSITION_DURATION * TRANSITION_DURATION

ThemeManager_new(initial_theme) ==
    [current_theme |-> initial_theme, transition_progress |-> ProgressOne,
     transition_start |-> << >>, target_theme |-> initial_theme]

\* if t < 0.5 { 4.0 * t * t * t } else { 1.0 - (-2.0 * t + 2.0).powi(3) / 2.0 }
ease_in_out_cubic(t) ==
    IF 2 * t < ProgressOne
    THEN (4 * t * t * t) \div (ProgressOne * ProgressOne)
    ELSE LET u == 2 * ProgressOne - 2 * t
         IN  ProgressOne - ((u * u * u) \div 2) \div (ProgressOne * ProgressOne)

\* `instant` is the value of Instant::now()
start_theme_transition(tm, new_theme, instant) ==
    IF new_theme # tm.current_theme
    THEN [tm EXCEPT !.target_theme = new_theme,
                    !.transition_start = <<instant>>,
                    !.transition_progress = 0]
    ELSE tm

\* update_theme_transition that takes the target theme at once
update_theme_transition_eager(tm, instant) ==
    IF tm.transition_start # << >>
    THEN [tm EXCEPT !.current_theme = tm.target_theme,
                    !.transition_start = << >>,
                    !.transition_progress = ProgressOne]
    ELSE tm

\* `instant` is the time at which start_time.elapsed() is read
update_theme_transition(tm, instant) ==
    IF tm.transition_start # << >>
    THEN LET elapsed == instant - tm.transition_start[1]
             ratio == elapsed * TRANSITION_DURATION * TRANSITION_DURATION
             progress == IF ratio < ProgressOne THEN ratio ELSE ProgressOne
             eased_progress == ease_in_out_cubic(progress)
         IN  IF eased_progress >= ProgressOne
             THEN [tm EXCEPT !.current_theme = tm.target_theme,
                             !.transition_start = << >>,
                             !.transition_progress = ProgressOne]
             ELSE [tm EXCEPT !.transition_progress = eased_progress]
    ELSE tm

is_transitioning(tm) == tm.transition_progress < ProgressOne

toggle_theme(tm, instant) ==
    start_theme_transition(tm, IF tm.current_theme = "Light" THEN "Dark" ELSE "Light",
                           instant)

----------------------------------------------------------------------------
(* ui_state: UiStateManager, the fields of the drag [is_dragging,          *)
(* drag_state]; drag_state is << >> for None, <<state>> for Some(state)    *)

UiStateManager_new == [is_dragging |-> FALSE, drag_state |-> << >>]

set_dragging(ui, dragging) ==
    IF dragging
    THEN [ui EXCEPT !.is_dragging = dragging]
    ELSE [ui EXCEPT !.is_dragging = dragging, !.drag_state = << >>]

set_drag_state(ui, state) == [ui EXCEPT !.drag_state = <<state>>]

----------------------------------------------------------------------------
(* main, ui: GameOfLifeApp.  The handlers below work on `s`, the fields of *)
(* the application: grid, generation, app (the other fields of the struct  *)
(* of main.rs), ui_state and statistics.  Three more fields keep what the  *)
(* handlers did for the properties to read: calls, the number of           *)
(* grid.next_generation() calls; reads, the get_cell calls of the          *)
(* collaborators, each with the width and height of the grid it read; and  *)
(* log, the next_generation and add_population calls in their order, each  *)
(* with the population of the grid it left or the population it recorded.  *)
(* Instants are ticks of 100 ms and Durations are in milliseconds.         *)

\* GameOfLifeApp::default(), for the size of the default grid
GameOfLifeApp_default(grid_width, grid_height, instant) ==
    [is_running |-> FALSE, cell_size |-> F32(10), last_update |-> instant,
     update_interval |-> 100, grid_width |-> grid_width,
     grid_height |-> grid_height, update_speed |-> F32(10),
     density |-> <<19660, 52480>>, save_load_status |-> << >>,
     status_timestamp |-> << >>]

\* Instant::elapsed, in milliseconds
elapsed(since, instant) == (instant - since) * 100

\* Duration::from_millis((1000.0 / update_speed) as u64), for the whole
\* numbers of frames per second the model uses (update_speed[2] = 0)
interval_of(update_speed) == (1000 * Limb) \div update_speed[1]

set_status(s, message, instant) ==
    [s EXCEPT !.app.save_load_status = <<message>>,
              !.app.status_timestamp = <<instant>>]

update_status(s, instant) ==
    IF /\ s.app.status_timestamp # << >>
       /\ elapsed(s.app.status_timestamp[1], instant) > 5000
    THEN [s EXCEPT !.app.save_load_status = << >>, !.app.status_timestamp = << >>]
    ELSE s

\* the count of Alive cells of the grid
get_current_population(s) ==
    Cardinality({i \in 1..Len(s.grid.cells) : s.grid.cells[i] = "Alive"})

\* records a population data point
update_population_history(s) ==
    [s EXCEPT !.statistics = add_population(@, get_current_population(s)),
              !.log = Append(@, [op |-> "add_population",
                                 population |-> get_current_population(s)])]

clear_population_history(s) ==
    [s EXCEPT !.statistics = clear_history(@)]

\* self.grid.next_generation()
grid_next_generation(s) ==
    LET advanced == [s EXCEPT !.grid = next_generation(@), !.calls = @ + 1]
    IN  [advanced EXCEPT !.log = Append(@, [op |-> "next_generation",
                                            population |-> get_current_population(advanced)])]

\* the automatic advance that does not wait for the interval
auto_advance_unpaced(s, instant) ==
    IF s.app.is_running
    THEN [grid_next_generation(s) EXCEPT !.generation = @ + 1,
                                         !.app.last_update = instant]
    ELSE s

\* the automatic advance that counts two generations for one
auto_advance_twice(s, instant) ==
    IF /\ s.app.is_running
       /\ elapsed(s.app.last_update, instant) >= s.app.update_interval
    THEN [grid_next_generation(s) EXCEPT !.generation = @ + 2,
                                         !.app.last_update = instant]
    ELSE s

\* update(): if self.is_running && self.last_update.elapsed() >= self.update_interval
auto_advance(s, instant) ==
    IF /\ s.app.is_running
       /\ elapsed(s.app.last_update, instant) >= s.app.update_interval
    THEN [grid_next_generation(s) EXCEPT !.generation = @ + 1,
                                         !.app.last_update = instant]
    ELSE s

\* the Start / Pause button
button_start_pause(s, instant) ==
    [s EXCEPT !.app.is_running = ~@, !.app.last_update = instant]

\* the Step button
button_step(s) ==
    update_population_history([grid_next_generation(s) EXCEPT !.generation = @ + 1])

\* the Clear button
button_clear(s) ==
    clear_population_history([s EXCEPT !.grid = clear(@), !.generation = 0])

\* the Random button
button_random(s, rng_state) ==
    update_population_history(clear_population_history(
        [s EXCEPT !.grid = randomize(@, s.app.density, rng_state),
                  !.generation = 0]))

\* the slider Update Speed (FPS)
slider_update_speed(s, update_speed) ==
    [s EXCEPT !.app.update_speed = update_speed,
              !.app.update_interval = interval_of(update_speed)]

\* the sliders Grid Width and Grid Height
slider_grid_size(s, grid_width, grid_height) ==
    [s EXCEPT !.app.grid_width = grid_width, !.app.grid_height = grid_height]

\* the Apply Grid Settings button
button_apply_grid_settings(s, rng_state) ==
    [s EXCEPT !.grid = randomize(Grid_new(s.app.grid_width, s.app.grid_height),
                                 s.app.density, rng_state),
              !.generation = 0]

saturating_sub(a, b) == IF a > b THEN a - b ELSE 0

\* the button of a preset pattern
button_preset(s, pattern) ==
    LET center_x == saturating_sub(s.grid.width, Len(pattern[1])) \div 2
        center_y == saturating_sub(s.grid.height, Len(pattern)) \div 2
    IN  update_population_history(clear_population_history(
            [s EXCEPT !.grid = load_pattern(@, pattern, center_x, center_y),
                      !.generation = 0]))

\* a get_cell(x, y) call of a collaborator on the grid g
Read(g, x, y) == [x |-> x, y |-> y, width |-> g.width, height |-> g.height]

\* the get_cell calls of the loops `for y in 0..height { for x in 0..width`
\* of GameState::from_grid, RlePattern::from_grid and draw_grid
loop_reads(g) ==
    {Read(g, i % g.width, i \div g.width) : i \in 0..(g.width * g.height - 1)}

\* A file is [extension, read]: read is the Result of fs::read_to_string,
\* Err or Ok(content); a content is [text, json], its characters and the
\* Result of serde_json::from_str on them, Err or Ok(GameState).

import_rle_file(file) ==
    IF ~file.read.ok THEN Err("IoError")
    ELSE import_from_rle_string(file.read.value.text)

load_game_state(file) ==
    IF ~file.read.ok THEN Err("IoError")
    ELSE IF ~file.read.value.json.ok THEN Err("JsonError")
    ELSE LET checked == validate(file.read.value.json.value)
         IN  IF checked.ok THEN Ok(file.read.value.json.value) ELSE checked

\* Ok([kind, value]) stands for Ok(LoadResult::kind(value))
load_file(file) ==
    IF file.extension = "rle"
    THEN LET pattern == import_rle_file(file)
         IN  IF pattern.ok
             THEN Ok([kind |-> "RlePattern", value |-> pattern.value])
             ELSE Err("InvalidGameState")
    ELSE LET state == load_game_state(file)
         IN  IF state.ok
             THEN Ok([kind |-> "GameState", value |-> state.value])
             ELSE state

\* for (y, row) in pattern.data.iter().enumerate() { for (x, &cell) in ...
RECURSIVE load_rle_cells(_, _, _, _, _)
load_rle_cells(pattern, g, start_x, start_y, index) ==
    IF index >= pattern.width * pattern.height THEN g
    ELSE LET x == index % pattern.width
             y == index \div pattern.width
             grid_x == start_x + x
             grid_y == start_y + y
         IN  load_rle_cells(pattern,
                 IF /\ pattern.data[y + 1][x + 1]
                    /\ grid_x < g.width /\ grid_y < g.height
                 THEN set_cell(g, grid_x, grid_y, "Alive") ELSE g,
                 start_x, start_y, index + 1)

load_rle_pattern(s, pattern, instant) ==
    LET new_width == IF pattern.width > s.app.grid_width
                     THEN pattern.width ELSE s.app.grid_width
        new_height == IF pattern.height > s.app.grid_height
                      THEN pattern.height ELSE s.app.grid_height
        start_x == saturating_sub(new_width, pattern.width) \div 2
        start_y == saturating_sub(new_height, pattern.height) \div 2
        new_grid == load_rle_cells(pattern, Grid_new(new_width, new_height),
                                   start_x, start_y, 0)
    IN  set_status([s EXCEPT !.grid = new_grid,
                             !.app.grid_width = new_width,
                             !.app.grid_height = new_height,
                             !.generation = 0],
                   "RLE pattern loaded", instant)

\* Ok(grid) => { ... }: the fields taken from the GameState
load_game_state_into(s, loaded_state, built_grid, instant) ==
    IF built_grid.ok
    THEN set_status(
             [s EXCEPT !.grid = built_grid.value,
                       !.generation = loaded_state.generation,
                       !.app.update_speed = loaded_state.settings.update_speed,
                       !.app.cell_size = loaded_state.settings.cell_size,
                       !.app.density = loaded_state.settings.density,
                       !.app.grid_width = loaded_state.width,
                       !.app.grid_height = loaded_state.height,
                       !.app.update_interval =
                           interval_of(loaded_state.settings.update_speed)],
             "Game state loaded", instant)
    ELSE set_status(s, "Load failed", instant)

\* the arms of `match save_load::load_file(&path)` that resets the
\* generation counter when the file cannot be read
load_game_reset_on_error(s, loaded, instant) ==
    IF ~loaded.ok
    THEN set_status([s EXCEPT !.generation = 0], "File read failed", instant)
    ELSE IF loaded.value.kind = "RlePattern"
    THEN load_rle_pattern(s, loaded.value.value, instant)
    ELSE load_game_state_into(s, loaded.value.value, to_grid(loaded.value.value), instant)

\* the arms of `match save_load::load_file(&path)`
load_game_match(s, loaded, instant) ==
    IF ~loaded.ok THEN set_status(s, "File read failed", instant)
    ELSE IF loaded.value.kind = "RlePattern"
    THEN load_rle_pattern(s, loaded.value.value, instant)
    ELSE load_game_state_into(s, loaded.value.value, to_grid(loaded.value.value), instant)

\* picked is the Option of the file dialog: << >> when the user cancels
load_game(s, picked, instant) ==
    IF picked = << >> THEN s
    ELSE load_game_match(s, load_file(picked[1]), instant)

\* picked is <<[extension, writable]>>, the path of the file dialog and
\* whether fs::write succeeds on it
save_game(s, picked, instant) ==
    IF picked = << >> THEN s
    ELSE LET read == [s EXCEPT !.reads = @ \cup loop_reads(s.grid)]
             checked ==
                 IF picked[1].extension = "rle" THEN Ok("unit")
                 ELSE validate(from_grid(s.grid, s.generation, s.app.update_speed,
                                         s.app.cell_size, s.app.density))
         IN  IF checked.ok /\ picked[1].writable
             THEN set_status(read, "File saved", instant)
             ELSE set_status(read, "Save failed", instant)

\* ((pos.x - rect.left()) / effective_cell_size) as usize: a float cast
\* to usize saturates, a negative one gives 0
as_usize(v) == IF v < 0 THEN 0 ELSE v

\* mouse_to_grid that lets the cell at x = grid_width through
mouse_to_grid_inclusive(pos, grid_width, grid_height) ==
    LET x == as_usize(pos[1])
        y == as_usize(pos[2])
    IN  IF x <= grid_width /\ y < grid_height THEN <<x, y>> ELSE << >>

\* the closure mouse_to_grid; pos is the pointer in cells from the left top
\* of the rect: <<floor((pos.x - rect.left()) / effective_cell_size), ...>>
mouse_to_grid(pos, grid_width, grid_height) ==
    LET x == as_usize(pos[1])
        y == as_usize(pos[2])
    IN  IF x < grid_width /\ y < grid_height THEN <<x, y>> ELSE << >>

\* response is [drag_started, dragged, drag_stopped, clicked,
\* interact_pointer_pos]: the egui::Response of the painter of the grid;
\* interact_pointer_pos is << >> for None, <<pos>> for Some(pos)
handle_mouse_interaction(s, response) ==
    LET cell == IF response.interact_pointer_pos = << >> THEN << >>
                ELSE mouse_to_grid(response.interact_pointer_pos[1],
                                   s.grid.width, s.grid.height)
        started ==
            IF response.drag_started /\ cell # << >>
            THEN LET current_state == get_cell(s.grid, cell[1], cell[2])
                     drag_state == IF current_state = "Alive" THEN "Dead" ELSE "Alive"
                 IN  [s EXCEPT !.reads = @ \cup {Read(s.grid, cell[1], cell[2])},
                               !.ui_state = set_dragging(set_drag_state(@, drag_state), TRUE),
                               !.grid = set_cell(@, cell[1], cell[2], drag_state)]
            ELSE s
        dragged ==
            IF /\ started.ui_state.is_dragging /\ response.dragged
               /\ cell # << >> /\ started.ui_state.drag_state # << >>
            THEN [started EXCEPT
                     !.grid = set_cell(@, cell[1], cell[2], started.ui_state.drag_state[1])]
            ELSE started
        stopped ==
            IF response.drag_stopped
            THEN [dragged EXCEPT !.ui_state = set_dragging(@, FALSE)]
            ELSE dragged
    IN  IF response.clicked /\ ~stopped.ui_state.is_dragging /\ cell # << >>
        THEN [stopped EXCEPT !.grid = toggle_cell(@, cell[1], cell[2])]
        ELSE stopped

draw_grid(s) == [s EXCEPT !.reads = @ \cup loop_reads(s.grid)]

\* the input of one call of update(): the widget the user acts on, if any
Idle == [kind |-> "idle"]
NoResponse ==
    [drag_started |-> FALSE, dragged |-> FALSE, drag_stopped |-> FALSE,
     clicked |-> FALSE, interact_pointer_pos |-> << >>]

\* render_control_panel: the widget of `input` is handled, the others are idle
render_control_panel(s, input, instant) ==
    IF input.kind = "start_pause" THEN button_start_pause(s, instant)
    ELSE IF input.kind = "step" THEN button_step(s)
    ELSE IF input.kind = "clear" THEN button_clear(s)
    ELSE IF input.kind = "random" THEN button_random(s, input.rng_state)
    ELSE IF input.kind = "save" THEN save_game(s, input.picked, instant)
    ELSE IF input.kind = "load" THEN load_game(s, input.picked, instant)
    ELSE IF input.kind = "speed" THEN slider_update_speed(s, input.update_speed)
    ELSE IF input.kind = "grid_size"
    THEN slider_grid_size(s, input.grid_width, input.grid_height)
    ELSE IF input.kind = "apply" THEN button_apply_grid_settings(s, input.rng_state)
    ELSE IF input.kind = "preset" THEN button_preset(s, input.pattern)
    ELSE IF input.kind = "clear_history" THEN clear_population_history(s)
    ELSE s

render_game_grid(s, input) ==
    draw_grid(handle_mouse_interaction(
                  s, IF input.kind = "mouse" THEN input.response ELSE NoResponse))

\* update(), for the time `instant` of its clock readings, up to the automatic
\* advance
update_advance(s, instant) == auto_advance(update_status(s, instant), instant)

\* update(): the panels
update_panels(s, input, instant) ==
    render_game_grid(render_control_panel(s, input, instant), input)

update(s, input, instant) == update_panels(update_advance(s, instant), input, instant)

----------------------------------------------------------------------------
(* The grid under a caller that makes any sequence of calls *)

Call(op, x, y, state, pattern, density, seed, ret) ==
    [op |-> op, x |-> x, y |-> y, state |-> state, pattern |-> pattern,
     density |-> density, seed |-> seed, ret |-> ret]

\* a call without the arguments it does not take
Call0(op, x, y, state, ret) == Call(op, x, y, state, << >>, <<0, 0>>, <<0, 0, 0, 0>>, ret)

\* no application around the grid: no file, no GameOfLifeApp and none of its
\* managers
InitApplication ==
    /\ rle_file = << >>
    /\ app = << >>
    /\ statistics = << >>
    /\ theme_manager = << >>
    /\ ui_state = << >>
    /\ now = 0
    /\ frame = << >>
    /\ trail = << >>

\* nothing computed, saved or loaded yet
InitOutside ==
    /\ generation = 0
    /\ game_state = << >>
    /\ rle_pattern = << >>
    /\ rle_data = << >>
    /\ imported = << >>
    /\ InitApplication

\* a panic unwinds the caller: no call follows it
Running == call.ret # "panic"

\* let grid = Grid::new(width, height);
Init ==
    \E d \in SeqDims :
        /\ built = Grid_new(d[1], d[2])
        /\ grid = built
        /\ call = Call0("new", d[1], d[2], "Dead", "ok")
        /\ new_cells = << >>
        /\ pending = {}
        /\ InitOutside

GetCell(x, y) ==
    /\ Running
    /\ call' = Call0("get_cell", x, y, "Dead", get_cell(grid, x, y))
    /\ UNCHANGED <<grid, built, locals, outside>>

SetCell(x, y, state) ==
    /\ Running
    /\ grid' = set_cell(grid, x, y, state)
    /\ call' = Call0("set_cell", x, y, state, "ok")
    /\ UNCHANGED <<built, locals, outside>>

ToggleCell(x, y) ==
    /\ Running
    /\ grid' = toggle_cell(grid, x, y)
    /\ call' = Call0("toggle_cell", x, y, "Dead", "ok")
    /\ UNCHANGED <<built, locals, outside>>

NextGeneration ==
    /\ Running
    /\ grid' = next_generation(grid)
    /\ call' = Call0("next_generation", 0, 0, "Dead", "ok")
    /\ UNCHANGED <<built, locals, outside>>

Clear ==
    /\ Running
    /\ grid' = clear(grid)
    /\ call' = Call0("clear", 0, 0, "Dead", "ok")
    /\ UNCHANGED <<built, locals, outside>>

Randomize(density, seed) ==
    /\ Running
    /\ grid' = randomize(grid, density, seed)
    /\ call' = Call("randomize", 0, 0, "Dead", << >>, density, seed, "ok")
    /\ UNCHANGED <<built, locals, outside>>

LoadPattern(pattern, x_offset, y_offset) ==
    /\ Running
    /\ grid' = load_pattern(grid, pattern, x_offset, y_offset)
    /\ call' = Call("load_pattern", x_offset, y_offset, "Dead", pattern,
                    <<0, 0>>, <<0, 0, 0, 0>>, "ok")
    /\ UNCHANGED <<built, locals, outside>>

Next ==
    \/ \E x \in XArgs, y \in YArgs : GetCell(x, y)
    \/ \E x \in XArgs, y \in YArgs, state \in CellState : SetCell(x, y, state)
    \/ \E x \in XArgs, y \in YArgs : ToggleCell(x, y)
    \/ NextGeneration
    \/ Clear
    \/ \E density \in Densities, seed \in HashValues : Randomize(density, seed)
    \/ \E pattern \in Patterns, x_offset \in Offsets, y_offset \in Offsets :
           LoadPattern(pattern, x_offset, y_offset)

Spec == Init /\ [][Next]_vars

----------------------------------------------------------------------------
(* One call on any grid.  The caller builds a grid of any cell states     *)
(* (Grid::new, then set_cell on the cells it wants Alive, as the tests of *)
(* game.rs do) and makes one call on it, so that `built` is the grid      *)
(* before the call and `grid` the grid after it.                          *)

InitGrid ==
    \E d \in Dims :
        \E cells \in [1..(d[1] * d[2]) -> CellState] :
            /\ built = [width |-> d[1], height |-> d[2], cells |-> cells]
            /\ grid = built
            /\ call = Call0("built", d[1], d[2], "Dead", "ok")
            /\ new_cells = << >>
            /\ pending = {}
            /\ InitOutside

NextGrid == call.op = "built" /\ Next

SpecGrid == InitGrid /\ [][NextGrid]_vars

----------------------------------------------------------------------------
(* next_generation, one loop iteration at a time and in any order.  The    *)
(* source evaluates the cells in row-major order; here the iterations of   *)
(* its loop body (eval_cell) are taken in every order, one per step, to    *)
(* compare each order's result with the result of the source's order.      *)

InitOrder ==
    \E d \in OrderDims :
        \E cells \in [1..(d[1] * d[2]) -> CellState] :
            /\ built = [width |-> d[1], height |-> d[2], cells |-> cells]
            /\ grid = built
            /\ call = Call0("built", d[1], d[2], "Dead", "ok")
            /\ new_cells = << >>
            /\ pending = {}
            /\ InitOutside

\* let mut new_cells = self.cells.clone();
BeginGeneration ==
    /\ call.op = "built"
    /\ new_cells' = grid.cells
    /\ pending' = 0..(Len(grid.cells) - 1)
    /\ call' = Call0("next_generation", 0, 0, "Dead", "running")
    /\ UNCHANGED <<grid, built, outside>>

\* one iteration of the loop body, for a cell not evaluated yet
EvalCell(index) ==
    /\ call.ret = "running"
    /\ index \in pending
    /\ new_cells' = eval_cell(grid, new_cells, index)
    /\ pending' = pending \ {index}
    /\ UNCHANGED <<grid, built, call, outside>>

\* self.cells = new_cells;
EndGeneration ==
    /\ call.ret = "running"
    /\ pending = {}
    /\ grid' = [grid EXCEPT !.cells = new_cells]
    /\ call' = Call0("next_generation", 0, 0, "Dead", "ok")
    /\ UNCHANGED <<built, new_cells, pending, outside>>

NextOrder ==
    \/ BeginGeneration
    \/ \E index \in 0..(MaxOrderCells - 1) : EvalCell(index)
    \/ EndGeneration

SpecOrder == InitOrder /\ [][NextOrder]_vars

----------------------------------------------------------------------------
(* A pattern placed on an empty grid and run: Grid::new, then load_pattern *)
(* as a preset button does (at any offset here, the application centres    *)
(* the pattern), then one next_generation after the other, the generations *)
(* counted as the application's update does.  `built` is the grid as      *)
(* load_pattern left it.                                                   *)

BLINKER == << <<"O", "O", "O">> >>
BLOCK == << <<"O", "O">>, <<"O", "O">> >>

PatternDims == (4..MaxPatternDim) \X (4..MaxPatternDim)

InitPattern ==
    \E d \in PatternDims :
        /\ built = Grid_new(d[1], d[2])
        /\ grid = built
        /\ call = Call0("new", d[1], d[2], "Dead", "ok")
        /\ new_cells = << >>
        /\ pending = {}
        /\ InitOutside

\* self.grid.load_pattern(pattern.data, x_offset, y_offset); self.generation = 0;
PlacePattern(pattern, x_offset, y_offset) ==
    /\ call.op = "new"
    /\ grid' = load_pattern(grid, pattern, x_offset, y_offset)
    /\ built' = grid'
    /\ call' = Call("load_pattern", x_offset, y_offset, "Dead", pattern,
                    <<0, 0>>, <<0, 0, 0, 0>>, "ok")
    /\ generation' = 0
    /\ UNCHANGED <<locals, game_state, rle_pattern, rle_data, imported,
                 application>>

\* self.grid.next_generation(); self.generation += 1;
RunGeneration ==
    /\ call.op # "new"
    /\ generation < MaxGenerations
    /\ grid' = next_generation(grid)
    /\ generation' = generation + 1
    /\ call' = Call0("next_generation", 0, 0, "Dead", "ok")
    /\ UNCHANGED <<built, locals, game_state, rle_pattern, rle_data, imported,
                 application>>

NextPattern ==
    \/ \E pattern \in {BLINKER, BLOCK} :
           \E x_offset \in 0..(MaxPatternDim - 1), y_offset \in 0..(MaxPatternDim - 1) :
               PlacePattern(pattern, x_offset, y_offset)
    \/ RunGeneration

SpecPattern == InitPattern /\ [][NextPattern]_vars

----------------------------------------------------------------------------
(* Saving and loading.  A caller of save_load either has a grid and saves  *)
(* it (from_grid, then validate or to_grid; RlePattern::from_grid, then    *)
(* to_grid or export and import of the text), or has a GameState read from *)
(* a file by serde_json (any value of the type: validate comes after), or  *)
(* has an RlePattern it built through the public fields or imported.       *)

\* the settings of GameOfLifeApp::default(): 10.0, 10.0 and 0.3f32
DefaultSettings == GameSettings(F32(10), F32(10), <<19660, 52480>>)

\* GameStates of a file: any geometry, alive cells in and out of the bounds
\* and repeated, settings valid or not (update_speed 0.0)
GameStates ==
    {[width |-> d[1], height |-> d[2], generation |-> 0,
      alive_cells |-> alive_cells, settings |-> settings] :
        d \in (0..MaxStateDim) \X (0..MaxStateDim),
        alive_cells \in UNION {[1..n -> (0..MaxStateDim) \X (0..MaxStateDim)] :
                                  n \in 0..MaxAliveCells},
        settings \in {DefaultSettings, GameSettings(F32(0), F32(10), <<19660, 52480>>)}}

\* name, comment and author of an RlePattern
Metadata ==
    { [name |-> << >>, comment |-> << >>, author |-> << >>],
      [name |-> <<"T">>, comment |-> <<"c">>, author |-> << >>],
      \* the comment import_from_rle_string builds from the lines "#C a", "#C b"
      [name |-> <<"T">>, comment |-> <<"a", "\n", "b">>, author |-> <<"A">>] }

RleDims == Dims \cup {<<w, 1>> : w \in 10..MaxRowWidth}

\* RlePatterns with `height` rows of `width` cells
RlePatterns ==
    UNION {{[name |-> m.name, comment |-> m.comment, author |-> m.author,
             width |-> d[1], height |-> d[2], rule |-> B3S23, data |-> data] :
               data \in [1..d[2] -> [1..d[1] -> BOOLEAN]], m \in Metadata} :
           d \in RleDims}

ExportedPattern ==
    <<"E", "x", "p", "o", "r", "t", "e", "d", " ", "P", "a", "t", "t", "e", "r", "n">>

ResultOf(result) == IF result.ok THEN "ok" ELSE result.error

\* largest number of characters of the body of an RLE file read from disk
MaxBodyLen == 3

\* the width or height a header line declares: its text and the number it
\* stands for, -1 when it is not a number
Declared ==
    { [text |-> <<"2">>, value |-> 2], [text |-> <<"1">>, value |-> 1],
      [text |-> <<"0">>, value |-> 0], [text |-> <<"a">>, value |-> -1] }

\* the characters of a body: cells, end of row, end of pattern, a run count,
\* a blank and a character that RLE does not have
BodyAlphabet == {"o", "b", "$", "!", "2", " ", "x"}

\* RLE files on disk: header is << >> when the file has no header line
RleFiles ==
    {[header |-> header, body |-> body] :
        header \in {<< >>} \cup {<<[width |-> w, height |-> h]>> : w \in Declared, h \in Declared},
        body \in UNION {[1..n -> BodyAlphabet] : n \in 0..MaxBodyLen}}

\* the text of the file: "x = <width>, y = <height>, rule = B3/S23", then the body
FileText(f) ==
    (IF f.header = << >> THEN << >>
     ELSE <<"x", " ", "=", " ">> \o f.header[1].width.text
          \o <<",", " ", "y", " ", "=", " ">> \o f.header[1].height.text
          \o <<",", " ", "r", "u", "l", "e", " ", "=", " ">> \o B3S23 \o <<"\n">>)
    \o f.body \o <<"\n">>

InitPersist ==
    /\ new_cells = << >>
    /\ pending = {}
    /\ generation = 0
    /\ imported = << >>
    /\ app = << >>
    /\ statistics = << >>
    /\ theme_manager = << >>
    /\ ui_state = << >>
    /\ now = 0
    /\ frame = << >>
    /\ trail = << >>
    /\ \/ \E d \in Dims :
            \E cells \in [1..(d[1] * d[2]) -> CellState] :
                /\ grid = [width |-> d[1], height |-> d[2], cells |-> cells]
                /\ call = Call0("built", d[1], d[2], "Dead", "ok")
                /\ game_state = << >>
                /\ rle_pattern = << >>
                /\ rle_file = << >>
                /\ rle_data = << >>
       \/ \E state \in GameStates :
            /\ grid = Grid_new(1, 1)
            /\ call = Call0("deserialized", 0, 0, "Dead", "ok")
            /\ game_state = <<state>>
            /\ rle_pattern = << >>
            /\ rle_file = << >>
            /\ rle_data = << >>
       \/ \E p \in RlePatterns :
            /\ grid = Grid_new(1, 1)
            /\ call = Call0("constructed", 0, 0, "Dead", "ok")
            /\ game_state = << >>
            /\ rle_pattern = <<p>>
            /\ rle_file = << >>
            /\ rle_data = << >>
       \* let content = fs::read_to_string(path)?;
       \/ \E f \in RleFiles :
            /\ grid = Grid_new(1, 1)
            /\ call = Call0("read_to_string", 0, 0, "Dead", "ok")
            /\ game_state = << >>
            /\ rle_pattern = << >>
            /\ rle_file = <<f>>
            /\ rle_data = FileText(f)
    /\ built = grid

\* let game_state = GameState::from_grid(grid, generation, update_speed, cell_size, density);
FromGrid ==
    /\ call.op = "built"
    /\ game_state' = <<from_grid(grid, generation, DefaultSettings.update_speed,
                                 DefaultSettings.cell_size, DefaultSettings.density)>>
    /\ call' = Call0("from_grid", 0, 0, "Dead", "ok")
    /\ UNCHANGED <<grid, built, locals, generation, rle_pattern, rle_data, imported,
                 application>>

\* game_state.validate()
Validate ==
    /\ call.op \in {"from_grid", "deserialized"}
    /\ call' = Call0("validate", 0, 0, "Dead", ResultOf(validate(game_state[1])))
    /\ UNCHANGED <<grid, built, locals, outside>>

\* match game_state.to_grid() { Ok(grid) => self.grid = grid, Err(e) => ... }
ToGrid ==
    /\ call.op \in {"from_grid", "deserialized"}
    /\ LET result == to_grid(game_state[1])
       IN  /\ grid' = IF result.ok THEN result.value ELSE grid
           /\ call' = Call0("to_grid", 0, 0, "Dead", ResultOf(result))
    /\ UNCHANGED <<built, locals, outside>>

\* let pattern = rle::RlePattern::from_grid(grid, "Exported Pattern".to_string());
RleFromGrid ==
    /\ call.op = "built"
    /\ rle_pattern' = <<RlePattern_from_grid(grid, ExportedPattern)>>
    /\ call' = Call0("rle_from_grid", 0, 0, "Dead", "ok")
    /\ UNCHANGED <<grid, built, locals, generation, game_state, rle_data, imported,
                 application>>

\* pattern.to_grid()
RleToGrid ==
    /\ call.op \in {"rle_from_grid", "constructed"}
    /\ LET result == RlePattern_to_grid(rle_pattern[1])
       IN  /\ grid' = IF result.ok THEN result.value ELSE grid
           /\ call' = Call0("rle_to_grid", 0, 0, "Dead", ResultOf(result))
    /\ UNCHANGED <<built, locals, outside>>

\* let rle_string = export_to_rle_string(&pattern);
ExportRle ==
    /\ call.op \in {"rle_from_grid", "constructed"}
    /\ rle_data' = export_to_rle_string(rle_pattern[1])
    /\ call' = Call0("export_to_rle_string", 0, 0, "Dead", "ok")
    /\ UNCHANGED <<grid, built, locals, generation, game_state, rle_pattern, imported,
                 application>>

\* let imported = import_from_rle_string(&rle_string);
ImportRle ==
    /\ call.op \in {"export_to_rle_string", "read_to_string"}
    /\ LET result == import_from_rle_string(rle_data)
       IN  /\ imported' = <<result>>
           /\ call' = Call0("import_from_rle_string", 0, 0, "Dead", ResultOf(result))
    /\ UNCHANGED <<grid, built, locals, generation, game_state, rle_pattern, rle_data,
                 application>>

NextPersist ==
    \/ FromGrid
    \/ Validate
    \/ ToGrid
    \/ RleFromGrid
    \/ RleToGrid
    \/ ExportRle
    \/ ImportRle

SpecPersist == InitPersist /\ [][NextPersist]_vars

----------------------------------------------------------------------------
(* PopulationStatistics under a caller that adds populations and clears    *)
(* the history in any order, as the tests of statistics.rs do.  trail      *)
(* keeps the populations added since the history was last cleared.         *)

\* largest max_history_length of a PopulationStatistics
MaxHistoryLength == 2
\* largest number of add_population calls between two clear_history calls
MaxAdded == 4
\* largest population added
MaxPopulation == 2

\* let mut stats = PopulationStatistics::new(max_history_length);
InitStats ==
    /\ grid = Grid_new(1, 1)
    /\ built = grid
    /\ new_cells = << >>
    /\ pending = {}
    /\ generation = 0
    /\ game_state = << >>
    /\ rle_pattern = << >>
    /\ rle_data = << >>
    /\ imported = << >>
    /\ rle_file = << >>
    /\ app = << >>
    /\ theme_manager = << >>
    /\ ui_state = << >>
    /\ now = 0
    /\ frame = << >>
    /\ \E max_history_length \in 0..MaxHistoryLength :
           /\ statistics = PopulationStatistics_new(max_history_length)
           /\ call = Call0("new", max_history_length, 0, "Dead", "ok")
    /\ trail = [added |-> << >>]

\* stats.add_population(population);
AddPopulation(population) ==
    /\ Len(trail.added) < MaxAdded
    /\ statistics' = add_population(statistics, population)
    /\ trail' = [added |-> Append(trail.added, population)]
    /\ call' = Call0("add_population", population, 0, "Dead", "ok")
    /\ UNCHANGED <<grid, built, locals, generation, game_state, rle_pattern, rle_data,
                   imported, rle_file, app, theme_manager, ui_state, now, frame>>

\* stats.clear_history();
ClearHistory ==
    /\ statistics' = clear_history(statistics)
    /\ trail' = [added |-> << >>]
    /\ call' = Call0("clear_history", 0, 0, "Dead", "ok")
    /\ UNCHANGED <<grid, built, locals, generation, game_state, rle_pattern, rle_data,
                   imported, rle_file, app, theme_manager, ui_state, now, frame>>

NextStats ==
    \/ \E population \in 0..MaxPopulation : AddPopulation(population)
    \/ ClearHistory

SpecStats == InitStats /\ [][NextStats]_vars

----------------------------------------------------------------------------
(* ThemeManager under a caller that requests themes, toggles and updates   *)
(* the transition at any time.  frame is the last call, trail the theme    *)
(* the manager was created with.                                           *)

\* the clock stops at this many ticks
MaxThemeTicks == 5

\* let mut theme_manager = ThemeManager::new(initial_theme);
InitTheme ==
    /\ grid = Grid_new(1, 1)
    /\ built = grid
    /\ call = Call0("new", 1, 1, "Dead", "ok")
    /\ new_cells = << >>
    /\ pending = {}
    /\ generation = 0
    /\ game_state = << >>
    /\ rle_pattern = << >>
    /\ rle_data = << >>
    /\ imported = << >>
    /\ rle_file = << >>
    /\ app = << >>
    /\ statistics = << >>
    /\ ui_state = << >>
    /\ now = 0
    /\ \E initial_theme \in ColorTheme :
           /\ theme_manager = ThemeManager_new(initial_theme)
           /\ trail = [initial_theme |-> initial_theme]
    /\ frame = [op |-> "new"]

\* theme_manager.start_theme_transition(new_theme);
StartThemeTransition(new_theme) ==
    /\ theme_manager' = start_theme_transition(theme_manager, new_theme, now)
    /\ frame' = [op |-> "start_theme_transition", new_theme |-> new_theme]
    /\ UNCHANGED <<grid, built, call, locals, generation, game_state, rle_pattern,
                   rle_data, imported, rle_file, app, statistics, ui_state, now, trail>>

\* theme_manager.toggle_theme();
ToggleTheme ==
    /\ theme_manager' = toggle_theme(theme_manager, now)
    /\ frame' = [op |-> "toggle_theme"]
    /\ UNCHANGED <<grid, built, call, locals, generation, game_state, rle_pattern,
                   rle_data, imported, rle_file, app, statistics, ui_state, now, trail>>

\* theme_manager.update_theme_transition();
UpdateThemeTransition ==
    /\ theme_manager' = update_theme_transition(theme_manager, now)
    /\ frame' = [op |-> "update_theme_transition"]
    /\ UNCHANGED <<grid, built, call, locals, generation, game_state, rle_pattern,
                   rle_data, imported, rle_file, app, statistics, ui_state, now, trail>>

\* 100 ms go by between two calls
ThemeClock ==
    /\ now < MaxThemeTicks
    /\ now' = now + 1
    /\ frame' = [op |-> "clock"]
    /\ UNCHANGED <<grid, built, call, locals, generation, game_state, rle_pattern,
                   rle_data, imported, rle_file, app, statistics, theme_manager,
                   ui_state, trail>>

NextTheme ==
    \/ \E new_theme \in ColorTheme : StartThemeTransition(new_theme)
    \/ ToggleTheme
    \/ UpdateThemeTransition
    \/ ThemeClock

SpecTheme == InitTheme /\ [][NextTheme]_vars

----------------------------------------------------------------------------
(* The application, one call of update() at a time.  Each call takes the   *)
(* input of one widget at most: a button, a slider, or the pointer on the  *)
(* grid.  frame is what the last call did [input, ticks, calls, reads,     *)
(* log]: ticks counts the next_generation() calls of the automatic         *)
(* advance, calls all of them.  trail keeps [advances, toggled_at,         *)
(* gesture]: the next_generation() calls since the last Clear, Random,     *)
(* preset, Apply Grid Settings or RLE load, the instant of the last click  *)
(* on Start / Pause, and whether the pointer is held down on the grid.     *)

\* largest number of cells of the grid of the application
MaxAppCells == 2
\* the clock stops at this many ticks
MaxTicks == 2
\* largest value of the generation counter
MaxAppGenerations == 2
\* the number of data points the statistics of the application keep
AppHistoryLength == 1

AppDims ==
    {d \in (1..MaxAppCells) \X (1..MaxAppCells) : d[1] * d[2] <= MaxAppCells}

\* the seeds of the time-seeded generator that the application draws
AppSeeds == { <<0, 0, 0, 0>>, <<4069, 9686, 34127, 20325>> }

\* the self of a handler, with nothing done yet in this call
Self ==
    [grid |-> grid, generation |-> generation, app |-> app,
     ui_state |-> ui_state, statistics |-> statistics,
     calls |-> 0, reads |-> {}, log |-> << >>]

\* the files the dialog of Load can pick.  Loaded: a GameState that
\* validate accepts, with settings that are not those of the application,
\* and an RLE text that import_from_rle_string accepts
SavedGame ==
    [extension |-> "json", read |-> Ok([text |-> <<"{", "}">>, json |->
        Ok([width |-> 1, height |-> 1, generation |-> MaxAppGenerations,
            alive_cells |-> << <<0, 0>> >>,
            settings |-> GameSettings(F32(5), F32(20), <<32768, 0>>)])])]
SavedPattern ==
    [extension |-> "rle", read |-> Ok([text |->
        FileText([header |-> <<[width |-> [text |-> <<"1">>, value |-> 1],
                                height |-> [text |-> <<"1">>, value |-> 1]]>>,
                  body |-> <<"o", "!">>]),
        json |-> Err("JsonError")])]

\* files that do not load: unreadable ones, JSON that is no GameState,
\* GameStates that validate rejects (an alive cell outside, a width of 0) and
\* an RLE text without its header line
BadFiles ==
    { [extension |-> "json", read |-> Err("IoError")],
      [extension |-> "json", read |-> Ok([text |-> <<"{">>, json |-> Err("JsonError")])],
      [extension |-> "json", read |-> Ok([text |-> <<"{", "}">>, json |->
          Ok([width |-> 1, height |-> 1, generation |-> 1,
              alive_cells |-> << <<1, 1>> >>, settings |-> DefaultSettings])])],
      [extension |-> "json", read |-> Ok([text |-> <<"{", "}">>, json |->
          Ok([width |-> 0, height |-> 1, generation |-> 1,
              alive_cells |-> << >>, settings |-> DefaultSettings])])],
      [extension |-> "rle", read |-> Err("IoError")],
      [extension |-> "rle", read |-> Ok([text |->
          FileText([header |-> << >>, body |-> <<"o", "!">>]),
          json |-> Err("JsonError")])] }

\* the paths the dialog of Save can pick
AppPaths ==
    { [extension |-> "json", writable |-> TRUE],
      [extension |-> "rle", writable |-> TRUE],
      [extension |-> "rle", writable |-> FALSE] }

\* where the pointer can be when it is pressed on the painter of the grid:
\* the rect of the painter has its right and bottom edges in it
PressCells(g) == (0..g.width) \X (0..g.height)

\* where the pointer can be while it is held down: anywhere around the rect
HeldCells(g) == (-1..g.width) \X (-1..g.height)

Pointer(drag_started, dragged, drag_stopped, clicked, pos) ==
    [kind |-> "mouse",
     response |-> [drag_started |-> drag_started, dragged |-> dragged,
                   drag_stopped |-> drag_stopped, clicked |-> clicked,
                   interact_pointer_pos |-> <<pos>>]]

\* GameOfLifeApp::default(), for a small grid
InitApp ==
    /\ built = Grid_new(1, 1)
    /\ call = Call0("new", 1, 1, "Dead", "ok")
    /\ new_cells = << >>
    /\ pending = {}
    /\ game_state = << >>
    /\ rle_pattern = << >>
    /\ rle_data = << >>
    /\ imported = << >>
    /\ rle_file = << >>
    /\ now = 0
    /\ generation = 0
    /\ \E d \in AppDims, rng_state \in AppSeeds :
           /\ grid = randomize(Grid_new(d[1], d[2]), <<19660, 52480>>, rng_state)
           /\ app = GameOfLifeApp_default(d[1], d[2], 0)
    /\ statistics = PopulationStatistics_new(AppHistoryLength)
    /\ theme_manager = ThemeManager_new("Dark")
    /\ ui_state = UiStateManager_new
    /\ frame = [input |-> Idle, ticks |-> 0, calls |-> 0, reads |-> {}, log |-> << >>]
    /\ trail = [advances |-> 0, toggled_at |-> << >>, gesture |-> FALSE]

\* the inputs after which the claimed generation count starts again: Clear,
\* Random, a preset, Apply Grid Settings and an RLE file that loaded
Resets(input, after) ==
    \/ input.kind \in {"clear", "random", "preset", "apply"}
    \/ /\ input.kind = "load"
       /\ input.picked # << >>
       /\ after.app.save_load_status = <<"RLE pattern loaded">>

\* fn update(&mut self, ...), with the input of this call
Update(input, gesture) ==
    \E advanced \in {update_advance(Self, now)} :
      \E after \in {update_panels(advanced, input, now)} :
        /\ after.generation <= MaxAppGenerations
        /\ grid' = after.grid
        /\ generation' = after.generation
        /\ app' = after.app
        /\ ui_state' = after.ui_state
        /\ statistics' = after.statistics
        /\ theme_manager' = update_theme_transition(theme_manager, now)
        /\ frame' = [input |-> input, ticks |-> advanced.calls, calls |-> after.calls,
                     reads |-> after.reads, log |-> after.log]
        /\ trail' = [advances |-> IF Resets(input, after) THEN 0
                                  ELSE trail.advances + after.calls,
                     toggled_at |-> IF input.kind = "start_pause" THEN <<now>>
                                    ELSE trail.toggled_at,
                     gesture |-> gesture]
        /\ UNCHANGED <<built, call, locals, game_state, rle_pattern, rle_data,
                       imported, rle_file, now>>

\* the pointer is not held down on the grid: the panel can be used
Free == ~trail.gesture

UpdateIdle == Free /\ Update(Idle, FALSE)
ClickStartPause == Free /\ Update([kind |-> "start_pause"], FALSE)
ClickStep == Free /\ Update([kind |-> "step"], FALSE)
ClickClear == Free /\ Update([kind |-> "clear"], FALSE)
ClickRandom(rng_state) ==
    Free /\ Update([kind |-> "random", rng_state |-> rng_state], FALSE)
ClickSave(picked) == Free /\ Update([kind |-> "save", picked |-> picked], FALSE)
ClickLoad(picked) == Free /\ Update([kind |-> "load", picked |-> picked], FALSE)
SlideUpdateSpeed(update_speed) ==
    Free /\ Update([kind |-> "speed", update_speed |-> update_speed], FALSE)
SlideGridSize(grid_width, grid_height) ==
    Free /\ Update([kind |-> "grid_size", grid_width |-> grid_width,
                    grid_height |-> grid_height], FALSE)
ClickApply(rng_state) ==
    Free /\ Update([kind |-> "apply", rng_state |-> rng_state], FALSE)
ClickPreset(pattern) ==
    Free /\ Update([kind |-> "preset", pattern |-> pattern], FALSE)
ClickClearHistory == Free /\ Update([kind |-> "clear_history"], FALSE)

\* a click on the grid
ClickCell(pos) == Free /\ Update(Pointer(FALSE, FALSE, FALSE, TRUE, pos), FALSE)
\* the pointer is pressed on the grid and moves: the drag starts
DragStart(pos) == Free /\ Update(Pointer(TRUE, TRUE, FALSE, FALSE, pos), TRUE)
\* the pointer is held down
Drag(pos) == trail.gesture /\ Update(Pointer(FALSE, TRUE, FALSE, FALSE, pos), TRUE)
\* the pointer is released
DragStop(pos) == trail.gesture /\ Update(Pointer(FALSE, FALSE, TRUE, FALSE, pos), FALSE)

\* 100 ms go by between two calls of update()
Clock ==
    /\ now < MaxTicks
    /\ now' = now + 1
    /\ UNCHANGED <<grid, built, call, locals, generation, game_state, rle_pattern,
                   rle_data, imported, rle_file, app, statistics, theme_manager,
                   ui_state, frame, trail>>

\* the pacing of the run: Start / Pause, Step and the slider of the speed
\* as the clock goes
NextPace ==
    \/ UpdateIdle
    \/ ClickStartPause
    \/ ClickStep
    \/ ClickClear
    \/ ClickClearHistory
    \/ \E update_speed \in {F32(5), F32(10)} : SlideUpdateSpeed(update_speed)
    \/ Clock

SpecPace == InitApp /\ [][NextPace]_vars

\* the generations of the grid: what advances it, what sets it up again and
\* what edits it
NextCount ==
    \/ UpdateIdle
    \/ ClickStartPause
    \/ ClickStep
    \/ ClickClear
    \/ \E rng_state \in AppSeeds : ClickRandom(rng_state)
    \/ \E file \in {SavedGame, SavedPattern} : ClickLoad(<<file>>)
    \/ \E rng_state \in AppSeeds : ClickApply(rng_state)
    \/ \E pattern \in {BLINKER, BLOCK} : ClickPreset(pattern)
    \/ \E pos \in PressCells(grid) : ClickCell(pos)
    \/ Clock

SpecCount == InitApp /\ [][NextCount]_vars

\* the application paused, loading files that load and files that do not
NextLoad ==
    \/ UpdateIdle
    \/ ClickStep
    \/ \E update_speed \in {F32(5), F32(10)} : SlideUpdateSpeed(update_speed)
    \/ \E d \in AppDims : SlideGridSize(d[1], d[2])
    \/ \E picked \in {<< >>} \cup {<<file>> : file \in {SavedGame, SavedPattern} \cup BadFiles} :
           ClickLoad(picked)

SpecLoad == InitApp /\ [][NextLoad]_vars

\* the application paused, with the pointer on the grid and the widgets that
\* replace or read the grid
NextMouse ==
    \/ UpdateIdle
    \/ \E picked \in {<< >>} \cup {<<path>> : path \in AppPaths} : ClickSave(picked)
    \/ \E file \in {SavedGame, SavedPattern} : ClickLoad(<<file>>)
    \/ \E d \in AppDims : SlideGridSize(d[1], d[2])
    \/ \E rng_state \in AppSeeds : ClickApply(rng_state)
    \/ \E pos \in PressCells(grid) : ClickCell(pos)
    \/ \E pos \in PressCells(grid) : DragStart(pos)
    \/ \E pos \in HeldCells(grid) : Drag(pos)
    \/ \E pos \in HeldCells(grid) : DragStop(pos)

SpecMouse == InitApp /\ [][NextMouse]_vars

----------------------------------------------------------------------------
(* Properties *)

CellAt(g, x, y) == g.cells[y * g.width + x + 1]
Xs(g) == 0..(g.width - 1)
Ys(g) == 0..(g.height - 1)
AliveCount(g) == Cardinality({i \in 1..Len(g.cells) : g.cells[i] = "Alive"})

\* a grid has width * height cells, each Alive or Dead
WellFormed(g) ==
    /\ g.width \in Nat /\ g.height \in Nat
    /\ DOMAIN g.cells = 1..(g.width * g.height)
    /\ \A i \in DOMAIN g.cells : g.cells[i] \in CellState

\* the positions of the Moore neighbourhood of (x, y) that lie inside the grid
NeighbourPositions(g, x, y) ==
    {p \in ((x - 1)..(x + 1)) \X ((y - 1)..(y + 1)) :
        p # <<x, y>> /\ p[1] \in Xs(g) /\ p[2] \in Ys(g)}

LiveNeighbours(g, x, y) ==
    Cardinality({p \in NeighbourPositions(g, x, y) : CellAt(g, p[1], p[2]) = "Alive"})

\* C1: after next_generation a cell is Alive exactly when, in the grid before
\* the call, it was Alive with 2 or 3 Alive neighbours or Dead with exactly 3
\* Alive neighbours; in every other case it is Dead (rule B3/S23).
C1_RuleB3S23 ==
    [][call'.op = "next_generation" =>
        /\ WellFormed(grid')
        /\ \A x \in Xs(grid), y \in Ys(grid) :
              LET n == LiveNeighbours(grid, x, y)
                  was == CellAt(grid, x, y)
              IN  CellAt(grid', x, y) =
                      IF \/ (was = "Alive" /\ n \in {2, 3})
                         \/ (was = "Dead" /\ n = 3)
                      THEN "Alive" ELSE "Dead"]_vars

\* next_generation has acted on a 3 x 3 grid in which a cell was born, a cell
\* survived, a cell died of isolation and the middle cell died of overcrowding
C1_Witness ==
    /\ call.op = "next_generation"
    /\ built.width = 3 /\ built.height = 3
    /\ CellAt(built, 1, 1) = "Alive" /\ LiveNeighbours(built, 1, 1) > 3
    /\ CellAt(grid, 1, 1) = "Dead"
    /\ \E x \in Xs(built), y \in Ys(built) :
          CellAt(built, x, y) = "Dead" /\ CellAt(grid, x, y) = "Alive"
    /\ \E x \in Xs(built), y \in Ys(built) :
          /\ CellAt(built, x, y) = "Alive" /\ LiveNeighbours(built, x, y) = 2
          /\ CellAt(grid, x, y) = "Alive"
    /\ \E x \in Xs(built), y \in Ys(built) :
          /\ CellAt(built, x, y) = "Alive" /\ LiveNeighbours(built, x, y) < 2
          /\ CellAt(grid, x, y) = "Dead"

\* C2: whatever the order in which the cells are evaluated, the new generation
\* is the one the row-major loop of next_generation computes from the grid
\* before the call: no evaluation reads a cell of the new generation.
C2_OrderIndependent ==
    /\ call.ret = "running" =>
          /\ grid = built
          /\ \A index \in 0..(Len(grid.cells) - 1) :
                new_cells[index + 1] =
                    IF index \in pending THEN built.cells[index + 1]
                    ELSE next_generation(built).cells[index + 1]
    /\ (call.op = "next_generation" /\ call.ret = "ok") =>
          grid = next_generation(built)

\* every cell of a 3 x 2 grid was evaluated, in some order, and the generation
\* changed cells next to each other: an in-place update would have differed
C2_Witness ==
    /\ call.op = "next_generation" /\ call.ret = "ok"
    /\ built.width = 3 /\ built.height = 2
    /\ CellAt(built, 0, 0) = "Alive" /\ CellAt(grid, 0, 0) = "Dead"
    /\ CellAt(built, 1, 0) = "Alive" /\ CellAt(grid, 1, 0) = "Alive"
    /\ CellAt(built, 1, 1) = "Dead" /\ CellAt(grid, 1, 1) = "Alive"

\* C3: for the grid next_generation is called on and every cell (x, y) of it,
\* count_neighbors(x, y) is the number of Alive cells among the positions
\* of the Moore neighbourhood that lie inside the grid (no wraparound, the cell
\* itself not counted); it is in 0..8 and at most 3 for a corner cell.
C3_CountNeighbors ==
    call.op = "next_generation" =>
        \A x \in Xs(built), y \in Ys(built) :
            LET count == count_neighbors(built, x, y)
            IN  /\ count = LiveNeighbours(built, x, y)
                /\ count \in 0..8
                /\ count <= Cardinality(NeighbourPositions(built, x, y))
                /\ (x \in {0, built.width - 1} /\ y \in {0, built.height - 1}) =>
                       /\ Cardinality(NeighbourPositions(built, x, y)) <= 3
                       /\ count <= 3

\* next_generation has counted the neighbours of a 3 x 3 grid whose middle
\* cell has 8 Alive neighbours and whose corner (0, 0) has 3
C3_Witness ==
    /\ call.op = "next_generation"
    /\ built.width = 3 /\ built.height = 3
    /\ count_neighbors(built, 1, 1) = 8
    /\ count_neighbors(built, 0, 0) = 3
    /\ count_neighbors(built, 2, 1) = 5

\* C5: after any sequence of calls on a grid built by Grid::new(w, h), width()
\* and height() are still w and h and the grid stores exactly w * h cells.
C5_DimensionsFixed ==
    /\ built = Grid_new(built.width, built.height)
    /\ grid.width = built.width
    /\ grid.height = built.height
    /\ Len(grid.cells) = built.width * built.height
    /\ WellFormed(grid)

\* a 2 x 2 grid that calls have changed since Grid::new, the last one a
\* load_pattern of a stencil larger than the grid
C5_Witness ==
    /\ call.op = "load_pattern" /\ Len(call.pattern) = 3
    /\ built.width = 2 /\ built.height = 2
    /\ AliveCount(grid) > 0

OutOfBounds(g, x, y) == x >= g.width \/ y >= g.height

\* C6: set_cell and toggle_cell called with x >= width or y >= height return
\* normally and leave every cell of the grid as it was.
C6_OutOfBoundsWriteIsNoOp ==
    [][(call'.op \in {"set_cell", "toggle_cell"} /\ OutOfBounds(grid, call'.x, call'.y)) =>
          (grid' = grid /\ call'.ret = "ok")]_vars

\* set_cell(width, 0, Alive) was called on a grid of at least two rows, where
\* the vector index 0 * width + width is the Dead cell (0, 1): it stayed Dead
C6_Witness ==
    /\ call.op = "set_cell" /\ call.state = "Alive"
    /\ call.x = grid.width /\ call.y = 0
    /\ grid.width >= 1 /\ grid.height >= 2
    /\ CellAt(grid, 0, 1) = "Dead"
    /\ AliveCount(grid) > 0
    /\ grid = built

\* C7: no call on the grid ever fails, get_cell with out-of-range coordinates
\* included, and no call leaves the grid with other than width * height cells.
C7_NoOperationFails ==
    /\ call.ret # "panic"
    /\ WellFormed(grid)

\* C8: get_cell with x >= width or y >= height fails and never returns the
\* state of a stored cell; with in-bounds coordinates it returns the state of
\* the cell (x, y).
C8_OutOfBoundsReadFails ==
    call.op = "get_cell" =>
        IF OutOfBounds(grid, call.x, call.y)
        THEN call.ret = "panic"
        ELSE call.ret = CellAt(grid, call.x, call.y)

IsLive(ch) == ch \in {"O", "*", "#"}

\* the character of the stencil that lands on the cell (x, y), if there is one
StencilHas(pattern, x_offset, y_offset, x, y) ==
    /\ x >= x_offset /\ y >= y_offset
    /\ y - y_offset < Len(pattern)
    /\ x - x_offset < Len(pattern[y - y_offset + 1])

\* C9: after load_pattern(pattern, x_offset, y_offset) a cell (x, y) is Alive
\* exactly when the stencil has a character on it and that character is 'O',
\* '*' or '#'; every other cell is Dead, whatever it was before; ragged rows
\* and stencil cells outside the grid are dropped without error.
C9_LoadPatternDestructive ==
    [][call'.op = "load_pattern" =>
        /\ call'.ret = "ok"
        /\ WellFormed(grid')
        /\ grid'.width = grid.width /\ grid'.height = grid.height
        /\ \A x \in Xs(grid), y \in Ys(grid) :
              CellAt(grid', x, y) =
                  IF /\ StencilHas(call'.pattern, call'.x, call'.y, x, y)
                     /\ IsLive(call'.pattern[y - call'.y + 1][x - call'.x + 1])
                  THEN "Alive" ELSE "Dead"]_vars

\* a ragged stencil was loaded at (1, 1) on a 3 x 3 grid: its first row made
\* (1, 1) and (2, 1) Alive, its third row fell below the grid, and the cell
\* (0, 0), Alive before the call and outside the stencil, is Dead
C9_Witness ==
    /\ call.op = "load_pattern" /\ call.x = 1 /\ call.y = 1
    /\ call.pattern = << <<"*", "#">>, << >>, <<".", "O", "b">> >>
    /\ built.width = 3 /\ built.height = 3
    /\ CellAt(built, 0, 0) = "Alive" /\ CellAt(grid, 0, 0) = "Dead"
    /\ CellAt(grid, 1, 1) = "Alive" /\ CellAt(grid, 2, 1) = "Alive"
    /\ AliveCount(grid) = 2

\* C10: clear sets every cell to Dead whatever the grid was, and a second
\* clear yields the same all-Dead grid.
C10_ClearIdempotent ==
    [][call'.op = "clear" =>
        /\ grid'.width = grid.width /\ grid'.height = grid.height
        /\ Len(grid'.cells) = Len(grid.cells)
        /\ \A i \in 1..Len(grid.cells) : grid'.cells[i] = "Dead"
        /\ (\A i \in 1..Len(grid.cells) : grid.cells[i] = "Dead") => grid' = grid
        /\ clear(grid') = grid']_vars

\* clear was called on a 3 x 3 grid all of whose cells were Alive
C10_Witness ==
    /\ call.op = "clear"
    /\ built.width = 3 /\ built.height = 3
    /\ AliveCount(built) = 9
    /\ AliveCount(grid) = 0

\* the state of the generator after n steps from the hasher value rng_state
RECURSIVE LcgAfter(_, _)
LcgAfter(rng_state, n) == IF n = 0 THEN rng_state ELSE lcg_next(LcgAfter(rng_state, n - 1))

One == <<Limb, 0>>
Zero == <<0, 0>>

\* C11: randomize(1.0) leaves every cell Alive, whatever the seed: every draw
\* is strictly less than 1.0.
C11_FullDensityAllAlive ==
    (call.op = "randomize" /\ call.density = One) =>
        /\ \A i \in 1..Len(grid.cells) : grid.cells[i] = "Alive"
        /\ \A n \in 1..Len(grid.cells) : f32_lt(rand_val(LcgAfter(call.seed, n)), One)

\* C12: randomize writes every cell from its own draw, the draw of the cell at
\* vector index i being number i + 1 of the sequence, whatever the cell was
\* before; with density 0.0 every cell is Dead after it, for every seed.
C12_RandomizeOverwrites ==
    [][call'.op = "randomize" =>
        /\ call'.ret = "ok"
        /\ WellFormed(grid')
        /\ grid'.width = grid.width /\ grid'.height = grid.height
        /\ \A index \in 0..(Len(grid.cells) - 1) :
              grid'.cells[index + 1] =
                  IF f32_lt(rand_val(LcgAfter(call'.seed, index + 1)), call'.density)
                  THEN "Alive" ELSE "Dead"
        /\ call'.density = Zero =>
              \A i \in 1..Len(grid.cells) : grid'.cells[i] = "Dead"]_vars

\* randomize(0.0) was called on a 3 x 3 grid all of whose cells were Alive,
\* with a seed whose first draw is 1.0, the largest there is
C12_Witness ==
    /\ call.op = "randomize" /\ call.density = Zero
    /\ call.seed = <<4069, 9686, 11402, 53381>>
    /\ built.width = 3 /\ built.height = 3
    /\ AliveCount(built) = 9
    /\ AliveCount(grid) = 0

\* the grid of the given size whose Alive cells are exactly those of `alive`
GridOf(width, height, alive) ==
    [width |-> width, height |-> height,
     cells |-> [i \in 1..(width * height) |->
                   IF <<(i - 1) % width, (i - 1) \div width>> \in alive
                   THEN "Alive" ELSE "Dead"]]

BlinkerHorizontal == GridOf(5, 5, {<<1, 2>>, <<2, 2>>, <<3, 2>>})
BlinkerVertical == GridOf(5, 5, {<<2, 1>>, <<2, 2>>, <<2, 3>>})

\* C13: on a 5 x 5 grid whose only Alive cells are (1,2), (2,2), (3,2), the
\* grid after an odd number of generations has exactly the Alive cells (2,1),
\* (2,2), (2,3), and the grid after an even number of generations is the
\* initial grid again.
C13_BlinkerPeriod2 ==
    built = BlinkerHorizontal =>
        /\ generation % 2 = 1 => grid = BlinkerVertical
        /\ generation % 2 = 0 => grid = BlinkerHorizontal
        /\ next_generation(next_generation(grid)) = grid

\* the blinker of test_blinker_pattern, loaded at (1, 2) on a 5 x 5 grid, has
\* run for at least three generations and stands vertical
C13_Witness ==
    /\ built = BlinkerHorizontal
    /\ call.op = "next_generation"
    /\ generation >= 3 /\ generation % 2 = 1
    /\ grid = BlinkerVertical

\* the Alive cells of g are exactly the four cells of a 2 x 2 block
IsBlock(g) ==
    \E x \in 0..(g.width - 2), y \in 0..(g.height - 2) :
        g = GridOf(g.width, g.height,
                   {<<x, y>>, <<x + 1, y>>, <<x, y + 1>>, <<x + 1, y + 1>>})

\* C14: a 2 x 2 block of Alive cells anywhere on an otherwise all-Dead grid of
\* at least 4 x 4 cells, against an edge or in a corner included, is a fixed
\* point of next_generation: the grid after the call is the grid before it.
C14_BlockStillLife ==
    (IsBlock(built) /\ built.width >= 4 /\ built.height >= 4) =>
        /\ grid = built
        /\ next_generation(grid) = grid

\* a block in the bottom right corner of a grid, after at least one generation
C14_Witness ==
    /\ IsBlock(built) /\ built.width >= 4 /\ built.height >= 4
    /\ CellAt(built, built.width - 1, built.height - 1) = "Alive"
    /\ call.op = "next_generation" /\ generation >= 1
    /\ AliveCount(grid) = 4

Flipped(state) == IF state = "Alive" THEN "Dead" ELSE "Alive"

\* C15: toggle_cell(x, y) with x < width and y < height flips the cell (x, y)
\* and leaves every other cell as it was; a second toggle_cell(x, y) gives
\* the grid before the first.
C15_ToggleFlipsOneCell ==
    [][(call'.op = "toggle_cell" /\ ~OutOfBounds(grid, call'.x, call'.y)) =>
        /\ call'.ret = "ok"
        /\ WellFormed(grid')
        /\ grid'.width = grid.width /\ grid'.height = grid.height
        /\ \A x \in Xs(grid), y \in Ys(grid) :
              CellAt(grid', x, y) =
                  IF <<x, y>> = <<call'.x, call'.y>>
                  THEN Flipped(CellAt(grid, x, y)) ELSE CellAt(grid, x, y)
        /\ toggle_cell(grid', call'.x, call'.y) = grid]_vars

\* toggle_cell(2, 1) was called on a 3 x 2 grid whose cell (2, 1) was Alive,
\* among other Alive cells: it is Dead and they are still Alive
C15_Witness ==
    /\ call.op = "toggle_cell" /\ call.x = 2 /\ call.y = 1
    /\ built.width = 3 /\ built.height = 2
    /\ CellAt(built, 2, 1) = "Alive" /\ CellAt(grid, 2, 1) = "Dead"
    /\ AliveCount(built) = 3 /\ AliveCount(grid) = 2

\* C16: after set_cell(x, y, s) with x < width and y < height, get_cell(x, y)
\* returns s and get_cell returns for every other in-bounds coordinate what
\* it returned before the call.
C16_SetThenGet ==
    [][(call'.op = "set_cell" /\ ~OutOfBounds(grid, call'.x, call'.y)) =>
        /\ call'.ret = "ok"
        /\ get_cell(grid', call'.x, call'.y) = call'.state
        /\ \A x \in Xs(grid), y \in Ys(grid) :
              <<x, y>> # <<call'.x, call'.y>> =>
                  get_cell(grid', x, y) = get_cell(grid, x, y)
        /\ grid'.width = grid.width /\ grid'.height = grid.height]_vars

\* set_cell(0, 2, Alive) was called on a 2 x 3 grid whose cell (0, 2) was
\* Dead and whose cell (1, 1) was Alive
C16_Witness ==
    /\ call.op = "set_cell" /\ call.x = 0 /\ call.y = 2 /\ call.state = "Alive"
    /\ built.width = 2 /\ built.height = 3
    /\ CellAt(built, 0, 2) = "Dead" /\ get_cell(grid, 0, 2) = "Alive"
    /\ CellAt(built, 1, 1) = "Alive" /\ get_cell(grid, 1, 1) = "Alive"
    /\ AliveCount(grid) = AliveCount(built) + 1

Mutators == {"next_generation", "clear", "randomize", "load_pattern", "set_cell", "toggle_cell"}

\* C17: Grid::new(w, h) with w = 0 or h = 0 returns a grid that stores no
\* cell, and next_generation, clear, randomize, load_pattern, set_cell and
\* toggle_cell on it return normally and leave it without cells.
C17_ZeroDimensionGrid ==
    (built.width = 0 \/ built.height = 0) =>
        /\ built.cells = << >>
        /\ grid.cells = << >>
        /\ grid.width = built.width /\ grid.height = built.height
        /\ call.op \in Mutators \cup {"new"} => call.ret = "ok"

\* on the grid of Grid::new(0, 3), randomize with density 1.0 has returned
C17_Witness ==
    /\ built.width = 0 /\ built.height = 3
    /\ call.op = "randomize" /\ call.density = One /\ call.ret = "ok"
    /\ grid.cells = << >>

\* the GameState at hand is the one from_grid makes of `built`
FromBuilt ==
    /\ game_state # << >>
    /\ game_state[1] = from_grid(built, generation, DefaultSettings.update_speed,
                                 DefaultSettings.cell_size, DefaultSettings.density)

\* C18: the GameState from_grid makes of a grid has the grid's width and
\* height and, in alive_cells, the coordinates of its Alive cells, each once
\* and no other; if the grid has width >= 1 and height >= 1, to_grid of that
\* GameState succeeds and returns the same grid.
C18_JsonRoundTrip ==
    FromBuilt =>
        LET state == game_state[1]
        IN  /\ state.width = built.width /\ state.height = built.height
            /\ \A k \in 1..Len(state.alive_cells) :
                  /\ state.alive_cells[k][1] \in Xs(built)
                  /\ state.alive_cells[k][2] \in Ys(built)
            /\ \A x \in Xs(built), y \in Ys(built) :
                  Cardinality({k \in 1..Len(state.alive_cells) :
                                  state.alive_cells[k] = <<x, y>>})
                      = IF CellAt(built, x, y) = "Alive" THEN 1 ELSE 0
            /\ (call.op = "to_grid" /\ built.width >= 1 /\ built.height >= 1) =>
                  (call.ret = "ok" /\ grid = built)

\* a 3 x 2 grid with three Alive cells, (2, 0) among them, went through
\* from_grid and to_grid
C18_Witness ==
    /\ call.op = "to_grid" /\ call.ret = "ok"
    /\ FromBuilt
    /\ built.width = 3 /\ built.height = 2
    /\ CellAt(built, 2, 0) = "Alive" /\ AliveCount(built) = 3
    /\ Len(game_state[1].alive_cells) = 3
    /\ AliveCount(grid) = 3

\* the width or the height is 0, or an alive cell lies outside them
InvalidGeometry(state) ==
    \/ state.width = 0
    \/ state.height = 0
    \/ \E k \in 1..Len(state.alive_cells) :
          \/ state.alive_cells[k][1] >= state.width
          \/ state.alive_cells[k][2] >= state.height

\* C19: GameState::validate and GameState::to_grid return InvalidGameState
\* when the width or the height is 0 or an alive cell has x >= width or
\* y >= height, and RlePattern::to_grid returns an error when the width or
\* the height is 0; no grid is handed over then, and a grid to_grid does
\* return has every cell of alive_cells Alive.
C19_InvalidGeometryRejected ==
    /\ call.op \in {"validate", "to_grid"} =>
          LET state == game_state[1]
          IN  /\ InvalidGeometry(state) =>
                    (call.ret = "InvalidGameState" /\ grid = built)
              /\ (call.op = "to_grid" /\ call.ret = "ok") =>
                    /\ grid.width = state.width /\ grid.height = state.height
                    /\ WellFormed(grid)
                    /\ \A k \in 1..Len(state.alive_cells) :
                          CellAt(grid, state.alive_cells[k][1],
                                 state.alive_cells[k][2]) = "Alive"
    /\ call.op = "rle_to_grid" =>
          ((rle_pattern[1].width = 0 \/ rle_pattern[1].height = 0) =>
              (call.ret = "InvalidFormat" /\ grid = built))

\* to_grid was called on a GameState of 2 x 2 cells read from a file, whose
\* first alive cell is inside the grid and whose second has x = 2
C19_Witness ==
    /\ call.op = "to_grid" /\ call.ret = "InvalidGameState"
    /\ game_state # << >>
    /\ game_state[1].width = 2 /\ game_state[1].height = 2
    /\ game_state[1].alive_cells = << <<0, 0>>, <<2, 1>> >>
    /\ grid = built

\* C20: for an RlePattern p of width >= 1 and height >= 1 with height rows of
\* width cells, import_from_rle_string(export_to_rle_string(p)) succeeds and
\* returns a pattern of the same width, height and data.
C20_RleDataRoundTrip ==
    (/\ call.op = "import_from_rle_string"
     /\ rle_pattern # << >>
     /\ rle_pattern[1].width >= 1 /\ rle_pattern[1].height >= 1
     /\ rle_data = export_to_rle_string(rle_pattern[1])) =>
        /\ imported[1].ok
        /\ imported[1].value.width = rle_pattern[1].width
        /\ imported[1].value.height = rle_pattern[1].height
        /\ imported[1].value.data = rle_pattern[1].data

\* C21: RLE metadata round trip: for every RlePattern p with width >= 1 and
\* height >= 1, import_from_rle_string(export_to_rle_string(p)) succeeds and
\* returns a pattern whose name and comment are those of p.
C21_RleMetadataRoundTrip ==
    (/\ call.op = "import_from_rle_string"
     /\ rle_pattern # << >>
     /\ rle_pattern[1].width >= 1 /\ rle_pattern[1].height >= 1
     /\ rle_data = export_to_rle_string(rle_pattern[1])) =>
        /\ imported[1].ok
        /\ imported[1].value.name = rle_pattern[1].name
        /\ imported[1].value.comment = rle_pattern[1].comment

\* the body up to its first "!", the end of the pattern
RECURSIVE Terminated(_)
Terminated(body) ==
    IF body = << >> \/ Head(body) = "!" THEN << >>
    ELSE <<Head(body)>> \o Terminated(Tail(body))

\* a run count that no "b", "o" or "$" follows
DanglingCount(body) ==
    \E i \in 1..Len(body) :
        /\ is_ascii_digit(body[i])
        /\ \/ i = Len(body)
           \/ ~(is_ascii_digit(body[i + 1]) \/ body[i + 1] \in {"b", "o", "$"})

\* a character that is no cell, end of row, end of pattern, digit or blank
OtherCharacter(body) ==
    \E i \in 1..Len(body) :
        ~(is_ascii_digit(body[i]) \/ body[i] \in {"b", "o", "$", "!"} \cup Whitespace)

\* the header declares a width or height that is 0 or not a number
BadDimensions(f) ==
    /\ f.header # << >>
    /\ \/ f.header[1].width.value <= 0
       \/ f.header[1].height.value <= 0

\* the Result of importing the file f is Err in the cases of `body`, and an
\* Ok pattern has the declared height rows of the declared width cells
ImportChecks(f, body, result) ==
    /\ f.header = << >> => ~result.ok
    /\ BadDimensions(f) => ~result.ok
    /\ DanglingCount(body) => ~result.ok
    /\ OtherCharacter(body) => ~result.ok
    /\ result.ok =>
        /\ result.value.width = f.header[1].width.value
        /\ result.value.height = f.header[1].height.value
        /\ Len(result.value.data) = result.value.height
        /\ \A y \in 1..Len(result.value.data) :
               Len(result.value.data[y]) = result.value.width

LastOf(seq, k) == SubSeq(seq, Len(seq) - k + 1, Len(seq))

Min(a, b) == IF a < b THEN a ELSE b

\* C23: PopulationStatistics keeps a bounded FIFO history: after any sequence
\* of add_population and clear_history calls, get_history_length() is at most
\* max_history_length and the history is the last min(n, max_history_length)
\* of the n values added since the last clear_history, in insertion order.
C23_BoundedFifoHistory ==
    /\ get_history_length(statistics) <= statistics.max_history_length
    /\ get_history(statistics) =
           LastOf(trail.added, Min(Len(trail.added), statistics.max_history_length))

\* a history that was full takes one more value: the oldest is evicted
C23_Witness ==
    /\ call.op = "add_population"
    /\ statistics.max_history_length = 2
    /\ trail.added = <<0, 1, 2>>
    /\ get_history(statistics) = <<1, 2>>

OtherTheme(theme) == IF theme = "Light" THEN "Dark" ELSE "Light"

\* the theme a call asks for: new_theme, or the other theme for toggle_theme()
Requested ==
    IF frame'.op = "toggle_theme" THEN OtherTheme(theme_manager.current_theme)
    ELSE frame'.new_theme

\* C29: theme transition life cycle.  start_theme_transition(t) or
\* toggle_theme() with a target different from current_theme makes
\* is_transitioning() true and target_theme the requested theme, current_theme
\* unchanged; current_theme becomes target_theme only in the
\* update_theme_transition call that observes progress >= 1.0 (the transition
\* started TRANSITION_DURATION or more ago), after which is_transitioning()
\* is false and transition_start is None; a request for the already-current
\* theme changes no field.
C29_ThemeTransition ==
    [][/\ (/\ frame'.op \in {"start_theme_transition", "toggle_theme"}
           /\ Requested # theme_manager.current_theme) =>
              /\ is_transitioning(theme_manager')
              /\ theme_manager'.target_theme = Requested
              /\ theme_manager'.current_theme = theme_manager.current_theme
       /\ (/\ frame'.op = "start_theme_transition"
           /\ frame'.new_theme = theme_manager.current_theme) =>
              theme_manager' = theme_manager
       /\ theme_manager'.current_theme # theme_manager.current_theme =>
              /\ frame'.op = "update_theme_transition"
              /\ theme_manager.transition_start # << >>
              /\ now - theme_manager.transition_start[1] >= TRANSITION_DURATION
       /\ (/\ frame'.op = "update_theme_transition"
           /\ theme_manager.transition_start # << >>
           /\ now - theme_manager.transition_start[1] >= TRANSITION_DURATION) =>
              /\ theme_manager'.current_theme = theme_manager.target_theme
              /\ ~is_transitioning(theme_manager')
              /\ theme_manager'.transition_start = << >>
      ]_vars

\* a manager created Dark has become Light: a transition ran to its end
C29_Witness ==
    /\ frame.op = "update_theme_transition"
    /\ trail.initial_theme = "Dark"
    /\ theme_manager.current_theme = "Light"
    /\ theme_manager.target_theme = "Light"
    /\ ~is_transitioning(theme_manager)
    /\ theme_manager.transition_start = << >>


\* C24: the application records a population data point, the count of Alive
\* cells of the grid, after each generation advance: in every call of
\* update(), each next_generation() call, of the Step button or of the
\* automatic tick, is followed by an add_population of the population it left.
C24_PopulationRecorded ==
    \A k \in 1..Len(frame.log) :
        frame.log[k].op = "next_generation" =>
            /\ k < Len(frame.log)
            /\ frame.log[k + 1] = [op |-> "add_population",
                                   population |-> frame.log[k].population]


\* C27 as stated: while is_running is false, update() never calls
\* next_generation(); while it is true, one update() call advances the grid
\* by at most one generation and only when update_interval has elapsed since
\* last_update, which is then reset; Start / Pause resets last_update, and no
\* advance happens earlier than one interval after it.
C27_PacedRunAnyAdvance ==
    [][now' = now =>
        /\ ~app.is_running => frame'.calls = 0
        /\ app.is_running =>
              /\ frame'.calls <= 1
              /\ frame'.calls = 1 =>
                    /\ elapsed(app.last_update, now) >= app.update_interval
                    /\ app'.last_update = now
        /\ frame'.input.kind = "start_pause" => app'.last_update = now
        /\ (frame'.calls > 0 /\ trail.toggled_at # << >>) =>
              elapsed(trail.toggled_at[1], now) >= app.update_interval
      ]_vars

\* the next_generation() calls of the Step button in the last call of update()
StepCalls(f) == f.calls - f.ticks

\* C27: pacing of the automatic run.  While is_running is false, update()
\* calls next_generation() only for a click on Step; while is_running is true,
\* the automatic tick of one update() call advances the grid by at most one
\* generation, and only when at least update_interval has elapsed since
\* last_update, which is then reset (a click on Step in the same call advances
\* it once more); toggling Start / Pause also resets last_update, so no
\* automatic advance happens earlier than one full interval after Start.
C27_PacedRun ==
    [][now' = now =>
        /\ StepCalls(frame') = (IF frame'.input.kind = "step" THEN 1 ELSE 0)
        /\ ~app.is_running => frame'.ticks = 0
        /\ app.is_running =>
              /\ frame'.ticks <= 1
              /\ frame'.ticks = 1 =>
                    /\ elapsed(app.last_update, now) >= app.update_interval
                    /\ app'.last_update = now
        /\ frame'.input.kind = "start_pause" => app'.last_update = now
        /\ (frame'.ticks > 0 /\ trail.toggled_at # << >>) =>
              elapsed(trail.toggled_at[1], now) >= app.update_interval
      ]_vars

\* an automatic advance at 5 frames per second, one full interval of 200 ms
\* after the click on Start
C27_Witness ==
    /\ frame.ticks = 1
    /\ frame.input.kind = "idle"
    /\ app.is_running
    /\ app.update_interval = 200
    /\ trail.toggled_at = <<0>>
    /\ now = 2
    /\ app.last_update = now
    /\ generation = 1


LoadedGame(f, a) ==
    /\ f.input.kind = "load"
    /\ f.input.picked # << >>
    /\ a.save_load_status = <<"Game state loaded">>

FailedLoad(file) ==
    \/ ~load_file(file).ok
    \/ /\ load_file(file).value.kind = "GameState"
       /\ ~to_grid(load_file(file).value.value).ok

\* C28: a failed load changes nothing but the status message.  When
\* load_file returns Err, or a GameState whose to_grid() returns Err,
\* load_game leaves grid, generation, update_speed, cell_size, density,
\* grid_width, grid_height and update_interval, and every other field but
\* the status and its timestamp, as they were.
C28_FailedLoadKeepsState ==
    [][(/\ now' = now
        /\ frame'.input.kind = "load"
        /\ frame'.input.picked # << >>
        /\ FailedLoad(frame'.input.picked[1])) =>
           /\ grid' = grid
           /\ generation' = generation
           /\ app'.update_speed = app.update_speed
           /\ app'.cell_size = app.cell_size
           /\ app'.density = app.density
           /\ app'.grid_width = app.grid_width
           /\ app'.grid_height = app.grid_height
           /\ app'.update_interval = app.update_interval
           /\ app' = [app EXCEPT !.save_load_status = app'.save_load_status,
                                 !.status_timestamp = app'.status_timestamp]
           /\ app'.save_load_status # << >>
           /\ ui_state' = ui_state
           /\ statistics' = statistics
      ]_vars

\* a load failed in an application that a loaded game, a Step and the
\* sliders had taken away from its defaults
C28_Witness ==
    /\ frame.input.kind = "load"
    /\ frame.input.picked # << >>
    /\ FailedLoad(frame.input.picked[1])
    /\ app.save_load_status = <<"File read failed">>
    /\ generation > 0
    /\ app.update_speed = F32(5)
    /\ app.cell_size = F32(20)
    /\ app.update_interval = 200
    /\ app.grid_width # grid.width


\* C25: every get_cell call made by the collaborators (draw_grid,
\* handle_mouse_interaction, GameState::from_grid, RlePattern::from_grid)
\* passes coordinates with x < width() and y < height() of the grid it reads,
\* in every reachable state, also after Apply Grid Settings or a file load
\* replaced the grid.
C25_ReadsInBounds ==
    \A read \in frame.reads :
        /\ 0 <= read.x /\ read.x < read.width
        /\ 0 <= read.y /\ read.y < read.height

\* a drag started on the last cell of a grid that an RLE load had put in the
\* place of a narrower one, with the sliders moved since
C25_Witness ==
    /\ frame.input.kind = "mouse"
    /\ frame.input.response.drag_started
    /\ ui_state.is_dragging
    /\ app.save_load_status = <<"RLE pattern loaded">>
    /\ grid.width = 2
    /\ app.grid_width # grid.width
    /\ frame.input.response.interact_pointer_pos = << <<1, 0>> >>
    /\ Read(grid, 1, 0) \in frame.reads


\* the pointer at pos is over a cell of the grid g
OverCell(g, pos) ==
    /\ 0 <= pos[1] /\ pos[1] < g.width
    /\ 0 <= pos[2] /\ pos[2] < g.height

\* C30: drag painting.  When a drag starts on an in-bounds cell whose state is
\* s, the drag state becomes the opposite of s and, until the drag stops,
\* every in-bounds cell the pointer is over is set to that opposite state,
\* while cells the pointer never visits are unchanged; a drag that starts
\* outside the grid changes no cell; when the drag stops is_dragging becomes
\* false and drag_state None; a click toggles the cell under the pointer only
\* when no drag is in progress.
C30_DragPainting ==
    [][frame'.input.kind = "mouse" =>
        LET response == frame'.input.response
            pos == response.interact_pointer_pos[1]
            over == OverCell(grid, pos)
        IN  /\ (response.drag_started /\ over) =>
                  /\ ui_state'.is_dragging
                  /\ ui_state'.drag_state = <<Flipped(CellAt(grid, pos[1], pos[2]))>>
                  /\ CellAt(grid', pos[1], pos[2]) = Flipped(CellAt(grid, pos[1], pos[2]))
            /\ (response.drag_started /\ ~over) =>
                  /\ ~ui_state'.is_dragging
                  /\ grid' = grid
            /\ (response.dragged /\ ~response.drag_started) =>
                  IF ui_state.is_dragging
                  THEN over => CellAt(grid', pos[1], pos[2]) = ui_state.drag_state[1]
                  ELSE grid' = grid
            /\ response.drag_stopped =>
                  /\ ~ui_state'.is_dragging
                  /\ ui_state'.drag_state = << >>
            /\ response.clicked =>
                  IF ~ui_state.is_dragging /\ over
                  THEN CellAt(grid', pos[1], pos[2]) = Flipped(CellAt(grid, pos[1], pos[2]))
                  ELSE grid' = grid
            /\ grid'.width = grid.width /\ grid'.height = grid.height
            /\ \A x \in Xs(grid), y \in Ys(grid) :
                  (~over \/ <<x, y>> # pos) => CellAt(grid', x, y) = CellAt(grid, x, y)
      ]_vars

====
